---- MODULE Spec2Model ----
(***************************************************************************)
(* Cursor-context classification of the context-aware-suggestions          *)
(* extension: the heuristic JSX scanner, the HTML scanner and the handlers *)
(* of the legacy extension (src/src/extension.ts), the                     *)
(* syntax-tree classifier, the markup scanner and the caching detector     *)
(* (src/src/contextDetector.ts), the settings controller                   *)
(* (src/unnamed/part_000) and the gate that activate sets up               *)
(* (src/unnamed/part_001).                                                 *)
(*                                                                         *)
(* A text is a sequence of one-character strings; offsets and indices are  *)
(* 0-based as in the source, so text[i] of the source is CharAt(text, i).  *)
(***************************************************************************)
EXTENDS Integers, Sequences, FiniteSets, TLC

VARIABLES
    entry,       \* the exported function that is called
    languageId,  \* probe.languageId / document.languageId
    text,        \* the text handed to the classifier
    offset,      \* the offset handed to the classifier
    fam,         \* the family of inputs the text was drawn from
    zone,        \* the syntactic region of the input in which the offset lies
    sourceFile,  \* the syntax tree ts.createSourceFile returns for text
    parsed,      \* whether ts.createSourceFile has been called
    scan,        \* the locals of isInJsxTextContent (i and the scan state)
    pc,          \* "scan": in the loop, "call": before an atomic call, "done": returned
    result,      \* the value returned
    configuredTtl, \* the cacheTtlMs argument of the detector's constructor
    detector,    \* the JsxContextDetector: its cacheTtlMs and its cache
    now,         \* the value the detector's clock returns
    documents,   \* the open documents: the version of each uri
    call,        \* the last call of JsxContextDetector.isInsideJsxText
    controller,  \* the SuggestionSettingsController: snapshots, state, persisted
    memento,     \* what the workspace memento stores under SNAPSHOT_KEY
    configuration, \* editor.quickSuggestions at each configuration scope
    op,          \* the controller operation in progress or last returned
    prior,       \* per key, editor.quickSuggestions when the key was last disabled
    gate,        \* the SuggestionGate: inDisabledZone, the inflight chain, the editor
    startup,     \* the call of restorePersisted that activate starts
    legacy       \* the legacy extension: lastState, the debounce timer, the editors

\* the variables of the detector and its environment
detectorVars == <<configuredTtl, detector, now, documents, call>>

\* the variables of the settings controller and its environment
settingsVars == <<controller, memento, configuration, op, prior, gate, startup, legacy>>

vars == <<entry, languageId, text, offset, fam, zone, sourceFile, parsed, scan, pc, result,
          detectorVars, settingsVars>>

\* what a call is given
probe == <<entry, languageId, text, offset, fam, zone, sourceFile>>

(***************************************************************************)
(* Characters and the character classes of the regular expressions.        *)
(***************************************************************************)
Letter ==
    {"a","b","c","d","e","f","g","h","i","j","k","l","m",
     "n","o","p","q","r","s","t","u","v","w","x","y","z",
     "A","B","C","D","E","F","G","H","I","J","K","L","M",
     "N","O","P","Q","R","S","T","U","V","W","X","Y","Z"}

Digit == {"0","1","2","3","4","5","6","7","8","9"}

\* /\s/
IsSpace(c) == c \in {" ", "\t", "\n", "\r", "\f"}

\* \w, the class \b is defined by
IsWordChar(c) == c \in Letter \cup Digit \cup {"_"}

\* /[A-Za-z\/>/]/
IsTagOpener(c) == c \in Letter \cup {"/", ">"}

\* /[A-Za-z0-9_)\]]/
IsOperandEnd(c) == c \in Letter \cup Digit \cup {"_", ")", "]"}

\* /[A-Za-z0-9_.\-]/
IsTagNameChar(c) == c \in Letter \cup Digit \cup {"_", ".", "-"}

\* the backquote character, which a TLA+ string literal cannot hold
Backtick == "BQ"

\* text[i], with "" for undefined (i outside the text)
CharAt(t, i) == IF i >= 0 /\ i < Len(t) THEN t[i + 1] ELSE ""

Max(a, b) == IF a >= b THEN a ELSE b

\* text.substring(from, to) for 0 <= from <= to
Substring(t, from, to) ==
    SubSeq(t, from + 1, IF to > Len(t) THEN Len(t) ELSE to)

(***************************************************************************)
(* isLikelyTagStart (extension.ts 153-191).                                *)
(***************************************************************************)
\* the alternatives of /\b(return|=>|=|\(|,|:|\?|&&|\|\||!)\s*$/
JsxPredecessors ==
    { <<"r","e","t","u","r","n">>, <<"=",">">>, <<"=">>, <<"(">>, <<",">>,
      <<":">>, <<"?">>, <<"&","&">>, <<"|","|">>, <<"!">> }

\* \b between s[p] and s[p+1] (1-based; p = 0 is the start of s)
WordBoundary(s, p) ==
    LET before == IF p >= 1 THEN IsWordChar(s[p]) ELSE FALSE
        after == IF p + 1 <= Len(s) THEN IsWordChar(s[p + 1]) ELSE FALSE
    IN before # after

\* /\b(return|=>|=|\(|,|:|\?|&&|\|\||!)\s*$/.test(s)
MatchesJsxPredecessor(s) ==
    \E alt \in JsxPredecessors :
        \E k \in 0..Len(s) :
            /\ Len(alt) + k <= Len(s)
            /\ \A m \in (Len(s) - k + 1)..Len(s) : IsSpace(s[m])
            /\ SubSeq(s, Len(s) - k - Len(alt) + 1, Len(s) - k) = alt
            /\ WordBoundary(s, Len(s) - k - Len(alt))

\* the while loop of lines 166-169: the index of the nearest non-whitespace
\* character at or before j, or -1
RECURSIVE SkipSpaceBack(_, _)
SkipSpaceBack(t, j) ==
    IF j >= 0 /\ IsSpace(CharAt(t, j)) THEN SkipSpaceBack(t, j - 1) ELSE j

\* isLikelyTagStart without the exception for the keywords that may precede
\* JSX (lines 181-185 dropped)
isLikelyTagStart_NoKeyword(t, i) ==
    LET nextChar == CharAt(t, i + 1)
        j == SkipSpaceBack(t, i - 1)
        prevChar == CharAt(t, j)
    IN  IF nextChar = "" THEN FALSE
        ELSE IF ~IsTagOpener(nextChar) THEN FALSE
        ELSE IF j >= 0 /\ prevChar \in {"|", "&"} THEN TRUE
        ELSE IF j >= 0 /\ IsOperandEnd(prevChar) THEN FALSE
        ELSE TRUE

\* isLikelyTagStart that accepts the letters return at the end of a longer
\* word (the \b of line 182 dropped)
isLikelyTagStart_NoBoundary(t, i) ==
    LET nextChar == CharAt(t, i + 1)
        j == SkipSpaceBack(t, i - 1)
        prevChar == CharAt(t, j)
    IN  IF nextChar = "" THEN FALSE
        ELSE IF ~IsTagOpener(nextChar) THEN FALSE
        ELSE IF j >= 0 /\ prevChar \in {"|", "&"} THEN TRUE
        ELSE IF j >= 0 /\ IsOperandEnd(prevChar)
             THEN j >= 5 /\ Substring(t, j - 5, j + 1) = <<"r","e","t","u","r","n">>
        ELSE TRUE

isLikelyTagStart(t, i) ==
    LET nextChar == CharAt(t, i + 1)
        j == SkipSpaceBack(t, i - 1)
        prevChar == CharAt(t, j)
    IN  IF nextChar = "" THEN FALSE
        ELSE IF ~IsTagOpener(nextChar) THEN FALSE
        ELSE IF j >= 0 /\ prevChar \in {"|", "&"} THEN TRUE
        ELSE IF j >= 0 /\ IsOperandEnd(prevChar)
             THEN MatchesJsxPredecessor(Substring(t, Max(0, j - 10), j + 1))
        ELSE TRUE

(***************************************************************************)
(* isInJsxTextContent (extension.ts 244-395): one iteration of the loop.   *)
(***************************************************************************)
ScanInit ==
    [ i |-> 0, inString |-> FALSE, stringChar |-> "", inTemplate |-> FALSE,
      templateDepth |-> 0, braceDepth |-> 0, jsxBraceDepth |-> 0,
      jsxTagDepth |-> 0, inJsxTag |-> FALSE, lastJsxTagClose |-> -1,
      inJsxContent |-> FALSE ]

\* lines 298-314: the two brace counters
TrackBraces(s, char) ==
    LET a == IF ~s.inJsxContent /\ ~s.inJsxTag
             THEN IF char = "{" THEN [s EXCEPT !.braceDepth = @ + 1]
                  ELSE IF char = "}" THEN [s EXCEPT !.braceDepth = @ - 1]
                  ELSE s
             ELSE s
    IN  IF a.inJsxContent /\ ~a.inJsxTag
        THEN IF char = "{" THEN [a EXCEPT !.jsxBraceDepth = @ + 1]
             ELSE IF char = "}" /\ a.jsxBraceDepth > 0
                  THEN [a EXCEPT !.jsxBraceDepth = @ - 1]
             ELSE a
        ELSE a

\* lines 353-359: back over the tag name, then over whitespace
RECURSIVE SkipNameBack(_, _)
SkipNameBack(t, j) ==
    IF j >= 0 /\ IsTagNameChar(CharAt(t, j)) THEN SkipNameBack(t, j - 1) ELSE j

\* the branch of the loop body that character i takes
Branch(t, s) ==
    LET i == s.i
        char == CharAt(t, i)
        prevChar == IF i > 0 THEN CharAt(t, i - 1) ELSE ""
        nextChar == CharAt(t, i + 1)
        b == TrackBraces(s, char)
    IN  IF (s.inString \/ s.inTemplate) /\ prevChar = "\\" THEN "escape"
        ELSE IF ~s.inTemplate /\ ~s.inString /\ char \in {"\"", "'"} THEN "stringOpen"
        ELSE IF s.inString /\ char = s.stringChar THEN "stringClose"
        ELSE IF s.inString THEN "string"
        ELSE IF ~s.inTemplate /\ char = Backtick THEN "templateOpen"
        ELSE IF s.inTemplate THEN "template"
        ELSE IF b.jsxBraceDepth > 0 THEN "expression"
        ELSE IF char = "<" /\ isLikelyTagStart(t, i) THEN "tagStart"
        ELSE IF char = ">" /\ b.inJsxTag THEN "tagEnd"
        ELSE IF char = "<" /\ nextChar = "/" /\ CharAt(t, i + 2) = ">" THEN "fragmentClose"
        ELSE "other"

\* lines 286-296
OnTemplate(t, s) ==
    LET char == CharAt(t, s.i)
        nextChar == CharAt(t, s.i + 1)
    IN  IF char = Backtick THEN [s EXCEPT !.inTemplate = FALSE, !.templateDepth = 0]
        ELSE IF char = "$" /\ nextChar = "{" THEN [s EXCEPT !.templateDepth = @ + 1]
        ELSE IF char = "}" /\ s.templateDepth > 1 THEN [s EXCEPT !.templateDepth = @ - 1]
        ELSE s

\* OnTagStart with a fragment <> that does not enter markup content (line
\* 329 dropped)
OnTagStart_FragmentNoContent(t, s) ==
    LET nextChar == CharAt(t, s.i + 1)
    IN  IF nextChar = "/" THEN [s EXCEPT !.inJsxTag = TRUE]
        ELSE IF nextChar = ">"
             THEN [s EXCEPT !.jsxTagDepth = @ + 1,
                            !.i = @ + 1, !.lastJsxTagClose = s.i + 1]
        ELSE [s EXCEPT !.inJsxTag = TRUE]

\* lines 322-337; i is advanced once more by the loop
OnTagStart(t, s) ==
    LET nextChar == CharAt(t, s.i + 1)
    IN  IF nextChar = "/" THEN [s EXCEPT !.inJsxTag = TRUE]
        ELSE IF nextChar = ">"
             THEN [s EXCEPT !.jsxTagDepth = @ + 1, !.inJsxContent = TRUE,
                            !.i = @ + 1, !.lastJsxTagClose = s.i + 1]
        ELSE [s EXCEPT !.inJsxTag = TRUE]

\* lines 340-375
OnTagEnd(t, s) ==
    LET i == s.i
        prevChar == IF i > 0 THEN CharAt(t, i - 1) ELSE ""
        c == [s EXCEPT !.inJsxTag = FALSE, !.lastJsxTagClose = i]
        j == SkipSpaceBack(t, SkipNameBack(t, i - 1))
    IN  IF prevChar = "/"
        THEN IF c.jsxTagDepth = 0 THEN [c EXCEPT !.inJsxContent = FALSE] ELSE c
        ELSE IF j >= 0 /\ CharAt(t, j) = "/" /\ j > 0 /\ CharAt(t, j - 1) = "<"
             THEN IF c.jsxTagDepth - 1 <= 0
                  THEN [c EXCEPT !.jsxTagDepth = 0, !.inJsxContent = FALSE]
                  ELSE [c EXCEPT !.jsxTagDepth = @ - 1]
        ELSE [c EXCEPT !.jsxTagDepth = @ + 1, !.inJsxContent = TRUE]

\* lines 378-387; i is advanced once more by the loop
OnFragmentClose(t, s) ==
    LET c == IF s.jsxTagDepth - 1 <= 0
             THEN [s EXCEPT !.jsxTagDepth = 0, !.inJsxContent = FALSE]
             ELSE [s EXCEPT !.jsxTagDepth = @ - 1]
    IN  [c EXCEPT !.i = @ + 2, !.lastJsxTagClose = s.i + 2]

\* the loop body for character s.i, followed by the loop's i++
ScanStep(t, s) ==
    LET char == CharAt(t, s.i)
        br == Branch(t, s)
        b == TrackBraces(s, char)
        after ==
            CASE br = "escape" -> s
              [] br = "stringOpen" -> [s EXCEPT !.inString = TRUE, !.stringChar = char]
              [] br = "stringClose" -> [s EXCEPT !.inString = FALSE]
              [] br = "string" -> s
              [] br = "templateOpen" -> [s EXCEPT !.inTemplate = TRUE, !.templateDepth = 1]
              [] br = "template" -> OnTemplate(t, s)
              [] br = "expression" -> b
              [] br = "tagStart" -> OnTagStart(t, b)
              [] br = "tagEnd" -> OnTagEnd(t, b)
              [] br = "fragmentClose" -> OnFragmentClose(t, b)
              [] OTHER -> b
    IN  [after EXCEPT !.i = @ + 1]

\* line 394
Verdict(s) == s.inJsxContent /\ s.jsxBraceDepth = 0 /\ ~s.inJsxTag

\* the whole loop, from scan state s
RECURSIVE ScanLoop(_, _, _)
ScanLoop(t, off, s) ==
    IF s.i < off THEN ScanLoop(t, off, ScanStep(t, s)) ELSE s

isInJsxTextContent(t, off) == Verdict(ScanLoop(t, off, ScanInit))


(***************************************************************************)
(* contextDetector.ts: the markup scanner and the syntax-tree classifier.  *)
(***************************************************************************)
\* lines 5-17
JSX_LANGUAGES == {"javascriptreact", "typescriptreact", "javascript", "typescript"}
MARKUP_LANGUAGES == {"html", "xml", "xhtml", "svg"}

Min(a, b) == IF a <= b THEN a ELSE b

\* pat occurs in t at index k
OccursAt(t, pat, k) ==
    k >= 0 /\ k + Len(pat) <= Len(t) /\ SubSeq(t, k + 1, k + Len(pat)) = pat

\* String.prototype.lastIndexOf(pat, position): position is clamped to
\* 0..length - Len(pat); the greatest index at or before it, or -1
LastIndexOf(t, pat, position) ==
    LET start == Min(Max(position, 0), Len(t) - Len(pat))
        hits == { k \in 0..start : OccursAt(t, pat, k) }
    IN  IF hits = {} THEN -1 ELSE CHOOSE k \in hits : \A m \in hits : m <= k

\* String.prototype.indexOf(pat, position): position is clamped to
\* 0..length; the least index at or after it, or -1
IndexOf(t, pat, position) ==
    LET start == Min(Max(position, 0), Len(t))
        hits == { k \in start..Len(t) : OccursAt(t, pat, k) }
    IN  IF hits = {} THEN -1 ELSE CHOOSE k \in hits : \A m \in hits : k <= m

\* lines 293-329
isMarkupTextContext(t, off) ==
    IF off < 0 \/ off > Len(t) THEN FALSE
    ELSE
    LET lastGt == LastIndexOf(t, <<">">>, off - 1)
        lastLt == LastIndexOf(t, <<"<">>, off - 1)
        found == IndexOf(t, <<"<">>, off)
        commentStart == LastIndexOf(t, <<"<","!","-","-">>, off)
        commentEnd == IndexOf(t, <<"-","-",">">>, commentStart)
        nextLt == IF found = -1 THEN Len(t) ELSE found
    IN  IF lastLt > lastGt THEN FALSE
        ELSE IF lastGt = -1 THEN FALSE
        ELSE IF /\ commentStart # -1
                /\ commentStart > lastGt
                /\ (commentEnd = -1 \/ commentEnd >= off)
             THEN FALSE
        ELSE off > lastGt /\ off <= nextLt

\* lines 331-355
isInsideTagAttributes(t, off) ==
    LET lastLt == LastIndexOf(t, <<"<">>, off)
        lastGt == LastIndexOf(t, <<">">>, off)
        nextGt == IndexOf(t, <<">">>, off)
    IN  IF lastLt = -1 THEN FALSE
        ELSE IF lastGt # -1 /\ lastGt > lastLt THEN FALSE
        ELSE IF nextGt = -1 THEN FALSE
        ELSE IF CharAt(t, lastLt + 1) = "/" THEN FALSE
        ELSE lastLt < off /\ off < nextGt

(* A syntax tree is a sequence of nodes in document order, the SourceFile   *)
(* first.  A node holds its kind, pos (getFullStart), start (getStart),     *)
(* end (getEnd) and the index of its parent (0 for the SourceFile); an      *)
(* opening or self-closing tag holds the span of its attributes node, an    *)
(* element or fragment the end of its opening and the start of its closing  *)
(* tag.  Tokens and the nodes of plain code are left out: none is of a kind *)
(* the classifier tests, so the walks from a token and from its parent      *)
(* agree.                                                                  *)
Node(kind, pos, end, parent) ==
    [ kind |-> kind, pos |-> pos, start |-> pos, end |-> end, parent |-> parent,
      attrPos |-> -1, attrEnd |-> -1, openEnd |-> -1, closeStart |-> -1 ]

\* the children of node n, in document order
Children(tree, n) == { m \in DOMAIN tree : tree[m].parent = n }

\* lines 147-161; 0 stands for undefined
RECURSIVE findDeepestNode(_, _, _)
findDeepestNode(tree, n, off) ==
    IF off < tree[n].pos \/ off >= tree[n].end THEN 0
    ELSE LET inside == { m \in Children(tree, n) : findDeepestNode(tree, m, off) # 0 }
         IN  IF inside = {} THEN n
             ELSE findDeepestNode(tree, CHOOSE m \in inside : \A k \in inside : m <= k, off)

\* lines 227-251
containsJsx(tree) ==
    \E n \in DOMAIN tree :
        tree[n].kind \in { "JsxElement", "JsxFragment", "JsxSelfClosingElement",
                           "JsxOpeningElement", "JsxClosingElement",
                           "JsxOpeningFragment", "JsxClosingFragment" }

\* lines 179-199
RECURSIVE isInsideJsxGap(_, _, _)
isInsideJsxGap(tree, n, off) ==
    IF n = 0 THEN FALSE
    ELSE IF /\ tree[n].kind \in {"JsxElement", "JsxFragment"}
            /\ off >= tree[n].openEnd
            /\ off <= tree[n].closeStart
         THEN TRUE
    ELSE isInsideJsxGap(tree, tree[n].parent, off)

\* lines 201-225
RECURSIVE isInsideJsxText(_, _, _)
isInsideJsxText(tree, n, off) ==
    IF n = 0 THEN FALSE
    ELSE IF tree[n].kind = "JsxText" THEN TRUE
    ELSE IF /\ tree[n].kind \in { "JsxOpeningElement", "JsxSelfClosingElement",
                                  "JsxOpeningFragment", "JsxClosingElement",
                                  "JsxClosingFragment" }
            /\ off > tree[n].start
            /\ off < tree[n].end
         THEN FALSE
    ELSE isInsideJsxText(tree, tree[n].parent, off)

\* lines 253-267
RECURSIVE isInsideJsxExpressionContext(_, _, _)
isInsideJsxExpressionContext(tree, n, off) ==
    IF n = 0 THEN FALSE
    ELSE IF tree[n].kind = "JsxExpression" /\ off > tree[n].start /\ off < tree[n].end
         THEN TRUE
    ELSE isInsideJsxExpressionContext(tree, tree[n].parent, off)

\* lines 269-291; t is node.getSourceFile().getFullText()
RECURSIVE isInsideJsxAttributeArea(_, _, _, _)
isInsideJsxAttributeArea(tree, t, n, off) ==
    IF n = 0 THEN isInsideTagAttributes(t, off)
    ELSE IF /\ tree[n].kind \in {"JsxOpeningElement", "JsxSelfClosingElement"}
            /\ \/ off >= tree[n].attrPos /\ off <= tree[n].attrEnd
               \/ off > tree[n].start /\ off < tree[n].attrPos
         THEN TRUE
    ELSE isInsideJsxAttributeArea(tree, t, tree[n].parent, off)

\* lines 122-144: the classification once the text is parsed into tree
ClassifyInTree(tree, t, off) ==
    LET targetNode == findDeepestNode(tree, 1, off)
    IN  IF ~containsJsx(tree) THEN FALSE
        ELSE IF targetNode = 0 THEN FALSE
        ELSE IF isInsideJsxAttributeArea(tree, t, targetNode, off) THEN FALSE
        ELSE IF isInsideJsxExpressionContext(tree, targetNode, off) THEN FALSE
        ELSE IF isInsideJsxText(tree, targetNode, off) THEN TRUE
        ELSE isInsideJsxGap(tree, targetNode, off)

\* lines 105-145
isJsxTextContext(lang, tree, t, off) ==
    IF lang \in MARKUP_LANGUAGES THEN isMarkupTextContext(t, off)
    ELSE IF off < 0 \/ off > Len(t) THEN FALSE
    ELSE ClassifyInTree(tree, t, off)

(***************************************************************************)
(* Inputs.  A document is a sequence of pieces, each a run of characters   *)
(* with the syntactic role it plays; the text is their concatenation.      *)
(***************************************************************************)
\* k: the region the piece stands for (see InsideZone); r: the syntax node it
\* is (see createSourceFile); s: its characters
Piece(k, r, s) == [k |-> k, r |-> r, s |-> s]

RECURSIVE Flatten(_)
Flatten(doc) == IF doc = <<>> THEN <<>> ELSE Head(doc).s \o Flatten(Tail(doc))

\* the piece that holds the character before offset o (o >= 1), and whether
\* o lies strictly inside that piece
RECURSIVE LeftPiece(_, _, _)
LeftPiece(doc, n, o) ==
    IF o <= Len(doc[n].s)
    THEN [k |-> doc[n].k, inside |-> o < Len(doc[n].s)]
    ELSE LeftPiece(doc, n + 1, o - Len(doc[n].s))

\* the region of an offset strictly inside a piece of kind k
InsideZone(k) ==
    CASE k = "open" -> "tag"
      [] k = "selfclose" -> "tag"
      [] k = "text" -> "content"
      [] k = "ntag" -> "nested"
      [] k = "expr" -> "expr"
      [] k = "exprpart" -> "expr"
      [] k = "close" -> "closing"
      [] k = "tail" -> "after"
      [] k = "template" -> "template"
      [] OTHER -> "code"

\* the region of an offset right after a piece of kind k
BoundaryZone(k) ==
    CASE k \in {"open", "text", "ntag", "expr"} -> "content"
      [] k \in {"selfclose", "close", "tail"} -> "after"
      [] k = "exprpart" -> "expr"
      [] OTHER -> "code"

ZoneAt(doc, o) ==
    IF o < 0 \/ o > Len(Flatten(doc)) THEN "outOfRange"
    ELSE IF o = 0 THEN "start"
    ELSE LET p == LeftPiece(doc, 1, o)
         IN  IF p.inside THEN InsideZone(p.k) ELSE BoundaryZone(p.k)

(***************************************************************************)
(* ts.createSourceFile (contextDetector.ts 114-120) on a document: the     *)
(* tree the TypeScript parser builds for the text of well-formed pieces.   *)
(***************************************************************************)
\* the index just after the tag name that starts at index j of s
RECURSIVE NameEnd(_, _)
NameEnd(s, j) == IF IsTagNameChar(CharAt(s, j)) THEN NameEnd(s, j + 1) ELSE j

\* the parser after one more piece: b.nodes is the tree so far, b.stack the
\* open nodes (innermost first), b.pos the position, b.prev the last role
ParsePiece(b, piece) ==
    LET len == Len(piece.s)
        pos == b.pos
        top == Head(b.stack)
        idx == Len(b.nodes) + 1
        fragment == piece.s \in { <<"<",">">>, <<"<","/",">">> }
        moved == [b EXCEPT !.pos = pos + len, !.prev = piece.r]
    IN  CASE piece.r = "open" ->
               [moved EXCEPT
                  !.nodes = @ \o
                    << [Node(IF fragment THEN "JsxFragment" ELSE "JsxElement", pos, -1, top)
                          EXCEPT !.openEnd = pos + len],
                       [Node(IF fragment THEN "JsxOpeningFragment" ELSE "JsxOpeningElement",
                             pos, pos + len, idx)
                          EXCEPT !.attrPos = pos + NameEnd(piece.s, 1),
                                 !.attrEnd = pos + len - 1] >>,
                  !.stack = <<idx>> \o @]
          [] piece.r = "self" ->
               [moved EXCEPT
                  !.nodes = @ \o
                    << [Node("JsxSelfClosingElement", pos, pos + len, top)
                          EXCEPT !.attrPos = pos + NameEnd(piece.s, 1),
                                 !.attrEnd = pos + len - 2] >>]
          [] piece.r = "text" ->
               IF b.prev = "text"
               THEN [moved EXCEPT !.nodes[Len(b.nodes)].end = pos + len]
               ELSE [moved EXCEPT !.nodes = @ \o << Node("JsxText", pos, pos + len, top) >>]
          [] piece.r = "expr" ->
               [moved EXCEPT !.nodes = @ \o << Node("JsxExpression", pos, pos + len, top) >>]
          [] piece.r = "exprOpen" ->
               [moved EXCEPT !.nodes = @ \o << Node("JsxExpression", pos, -1, top) >>,
                             !.stack = <<idx>> \o @]
          [] piece.r = "exprClose" ->
               [moved EXCEPT !.nodes[top].end = pos + len, !.stack = Tail(@)]
          [] piece.r = "close" ->
               [moved EXCEPT
                  !.nodes = [@ EXCEPT ![top].end = pos + len, ![top].closeStart = pos] \o
                    << Node(IF fragment THEN "JsxClosingFragment" ELSE "JsxClosingElement",
                            pos, pos + len, top) >>,
                  !.stack = Tail(@)]
          [] OTHER -> moved

RECURSIVE ParsePieces(_, _)
ParsePieces(b, doc) ==
    IF doc = <<>> THEN b ELSE ParsePieces(ParsePiece(b, Head(doc)), Tail(doc))

createSourceFile(doc) ==
    ParsePieces([ nodes |-> << Node("SourceFile", 0, Len(Flatten(doc)), 0) >>,
                  stack |-> <<1>>, pos |-> 0, prev |-> "" ], doc).nodes

\* all concatenations of at most n members of the set atoms
RECURSIVE Concats(_, _)
Concats(atoms, n) ==
    IF n = 0 THEN { <<>> }
    ELSE LET shorter == Concats(atoms, n - 1)
         IN  shorter \cup { a \o c : a \in atoms, c \in shorter }

\* the longest content of a root element, in atoms
MaxAtoms == 2
\* the most statements of a text without markup
MaxStmts == 1
\* the longest text content X of the element after a predecessor
MaxText == 2
\* the longest content X of the fragment / div pair
MaxFragment == 3

\* ---- a root element: <d ...>CONTENT</d>; or <d ... />;
OpenTags ==
    { <<"<","d",">">>,
      <<"<","d"," ","a","=","\"",">","\"",">">>,
      <<"<","d"," ","a","=","{","b",">","c","}",">">> }

SelfClosingTags ==
    { <<"<","d","/",">">>,
      <<"<","d"," ","a","=","{","b",">","c","}","/",">">> }

ContentAtoms ==
    { << Piece("text", "text", <<"a">>) >>,
      << Piece("text", "text", <<"'">>) >>,
      << Piece("ntag", "open", <<"<","b",">">>),
         Piece("ntag", "close", <<"<","/","b",">">>) >>,
      << Piece("expr", "expr", <<"{","x","}">>) >>,
      << Piece("exprpart", "exprOpen", <<"{","c","&","&">>),
         Piece("exprpart", "open", <<"<","b",">">>),
         Piece("exprpart", "text", <<"x">>),
         Piece("exprpart", "close", <<"<","/","b",">">>),
         Piece("expr", "exprClose", <<"}">>) >> }

CloseTag == <<"<","/","d",">">>

ElementDocs ==
    { << Piece("open", "open", o) >> \o c
      \o << Piece("close", "close", CloseTag), Piece("tail", "code", <<";">>) >> :
        o \in OpenTags, c \in Concats(ContentAtoms, MaxAtoms) }
    \cup { << Piece("selfclose", "self", o), Piece("tail", "code", <<";">>) >> :
             o \in SelfClosingTags }

\* ---- code without markup: comparisons and generics
Statements ==
    { <<"a"," ","<"," ","b">>,
      <<"a","<","b">>,
      <<"a",">","b">>,
      <<"a"," ","<","="," ","b">>,
      <<"f","<","T",">","(","x",")">>,
      <<"f","=","<","T",">","(","x",")","=",">","x">>,
      <<"s","=","\"","\\","\"","<","b",">","\"">>,
      <<"s","=",Backtick,"$","{","a","}","<","b",">",Backtick>> }

StatementAtoms == { << Piece("code", "code", st \o <<";">>) >> : st \in Statements }

NoMarkupDocs == Concats(StatementAtoms, MaxStmts) \ { <<>> }

\* ---- an element after a JSX-permitting predecessor: PRED <div>X</div>
PredecessorCode ==
    { <<>>,
      <<"r","e","t","u","r","n">>,
      <<";","r","e","t","u","r","n">>,
      <<"f","=","(",")","=",">">>,
      <<"x","=">>,
      <<"f","(">>,
      <<"[","a",",">>,
      <<"{","a",":">>,
      <<"c","?">>,
      <<"c","&","&">>,
      <<"c","|","|">>,
      <<"x","=","!">> }

Gaps == { <<>>, <<" ">>, <<"\n"," ">> }

TextChars == { <<"a">>, <<")">>, <<"'">> }

DivOpen == <<"<","d","i","v",">">>
DivClose == <<"<","/","d","i","v",">">>

PredecessorDocs ==
    { (IF p \o g = <<>> THEN <<>> ELSE << Piece("code", "code", p \o g) >>)
      \o << Piece("open", "open", DivOpen) >>
      \o (IF x = <<>> THEN <<>> ELSE << Piece("text", "text", x) >>)
      \o << Piece("close", "close", DivClose) >> :
        p \in PredecessorCode, g \in Gaps, x \in Concats(TextChars, MaxText) }

\* ---- an element that the text ends in: <d>CONTENT
UnclosedDocs ==
    { << Piece("open", "open", <<"<","d",">">>) >>,
      << Piece("open", "open", <<"<","d",">">>), Piece("text", "text", <<"a">>) >> }

\* ---- a fragment <>X</> with any characters X
FragmentChars == { <<"a">>, <<"<">>, <<">">>, <<"/">>, <<"{">>, <<"}">>, <<"'">>, <<" ">> }

FragOpen == <<"<",">">>
FragClose == <<"<","/",">">>

FragmentDocs ==
    { << Piece("open", "open", FragOpen) >>
      \o (IF x = <<>> THEN <<>> ELSE << Piece("text", "text", x) >>)
      \o << Piece("close", "close", FragClose) >> :
        x \in Concats(FragmentChars, MaxFragment) }

\* ---- malformed code: closing delimiters that nothing opened
\* the most closing delimiters of such a text
MaxClosers == 2

Closers ==
    { <<"}">>, <<">">>, <<"/",">">>, <<"<","/","d",">">>, <<"<","/",">">> }

CloserDocs ==
    { << Piece("code", "code", x) >> :
        x \in Concats(Closers, MaxClosers) \ { <<>> } }

\* ---- a string literal "X" followed by an element: X holds backslashes,
\* quotes and letters
\* the longest X, in characters
MaxString == 3

StringChars == { <<"\\">>, <<"\"">>, <<"a">> }

StringDocs ==
    { << Piece("code", "code", <<"\"">> \o x \o <<"\"">>),
         Piece("open", "open", <<"<","d",">">>) >> :
        x \in Concats(StringChars, MaxString) }

\* ---- an assignment of a template literal: x=`...`;
TemplateLiterals ==
    { <<Backtick,"<","d",">",Backtick>>,
      <<Backtick,"\\",Backtick,"<","d",">",Backtick>>,
      <<Backtick,"$","{","a","}","<","d",">",Backtick>>,
      <<Backtick,"$","{","{","}","}","<","d",">",Backtick>>,
      <<Backtick,"$","{",Backtick,"<","d",">",Backtick,"}",Backtick>>,
      <<Backtick,"$","{",Backtick,"a",Backtick,"}","<","d",">",Backtick>> }

TemplateDocs ==
    { << Piece("code", "code", <<"x","=">>), Piece("template", "code", l),
         Piece("tail", "code", <<";">>) >> :
        l \in TemplateLiterals }

\* ---- a < between a predecessor and a follower: what isLikelyTagStart
\* looks at
TagStartBefore ==
    { <<>>, <<" ">>, <<"a">>, <<"1">>, <<"_">>, <<")">>, <<"]">>, <<"a"," ">>,
      <<"r","e","t","u","r","n">>,
      <<"r","e","t","u","r","n"," ">>,
      <<";","r","e","t","u","r","n">>,
      <<"x","r","e","t","u","r","n">>,
      <<"_","r","e","t","u","r","n">>,
      <<"1","r","e","t","u","r","n">>,
      <<"r","e","t","u","r","n","s">>,
      <<"R","e","t","u","r","n">>,
      <<"=">>, <<"=",">">>, <<"(">>, <<",">>, <<":">>, <<"?">>, <<"!">>,
      <<"&","&">>, <<"|","|">>, <<"|">>, <<"}">>, <<">">>, <<"a","=","b">>,
      <<"f","(","x",")">>, <<"a","?","b">> }

TagStartAfter ==
    { <<>>, <<"d">>, <<"D">>, <<"/">>, <<">">>, <<" ">>, <<"1">>, <<"=">>, <<"_">> }

TagStartDocs ==
    { << Piece("code", "code", b \o <<"<">> \o a) >> :
        b \in TagStartBefore, a \in TagStartAfter }

\* ---- an element whose text follows an expression: <d>{EXPR}X</d>;
ComparisonExprs ==
    { <<"{","a","<","b","}">>, <<"{","a",">","b","}">>, <<"{","x","}">> }

ComparisonDocs ==
    { << Piece("open", "open", <<"<","d",">">>),
         Piece("expr", "expr", e),
         Piece("text", "text", x),
         Piece("close", "close", CloseTag),
         Piece("tail", "code", <<";">>) >> :
        e \in ComparisonExprs, x \in Concats(TextChars, MaxText) \ { <<>> } }

\* the offsets of a document at which the classifier is asked: all of them
\* and one on either side, or only those of the content
AllOffsets(doc) == -1..(Len(Flatten(doc)) + 1)
ContentOffsets(doc) == { o \in 0..Len(Flatten(doc)) : ZoneAt(doc, o) = "content" }

(***************************************************************************)
(* The state machine: a call of isInJsxTextContent, one loop iteration per  *)
(* step.                                                                   *)
(***************************************************************************)
\* no detector has been constructed
NoDetector ==
    /\ configuredTtl = <<>>
    /\ detector = [cacheTtlMs |-> 0, cache |-> <<>>]
    /\ now = 0
    /\ documents = <<>>
    /\ call = <<>>

\* no gate has been constructed and the extension is not being activated
\* the legacy extension is not loaded
NoLegacy ==
    [ pc |-> "none", lastState |-> <<>>, timeout |-> <<>>, activeTextEditor |-> <<>>,
      between |-> FALSE, updates |-> <<>>, events |-> 0, run |-> <<>>, away |-> FALSE ]

NoGate ==
    /\ legacy = NoLegacy
    /\ gate = [ inDisabledZone |-> FALSE, queue |-> <<>>, inflight |-> "fulfilled",
                active |-> <<>>, last |-> "", events |-> 0, scheduled |-> 0,
                ran |-> 0, skipped |-> 0, failures |-> 0, failedAt |-> 0 ]
    /\ startup = [ pc |-> "none", cur |-> <<>>, next |-> 0, key |-> 0,
                   leftovers |-> <<>> ]

\* no settings controller has been constructed
NoController ==
    /\ NoGate
    /\ controller = [snapshots |-> <<>>, state |-> <<>>, persisted |-> <<>>]
    /\ memento = <<>>
    /\ configuration = <<>>
    /\ op = [name |-> "", key |-> "", pc |-> "returned",
             configWrites |-> 0, mementoWrites |-> 0, entries |-> <<>>]
    /\ prior = <<>>

StartScan(f, doc, o) ==
    /\ entry = "isInJsxTextContent"
    /\ languageId = "typescriptreact"
    /\ fam = f
    /\ text = Flatten(doc)
    /\ offset = o
    /\ zone = ZoneAt(doc, o)
    /\ sourceFile = IF f = "element" THEN createSourceFile(doc) ELSE <<>>
    /\ parsed = FALSE
    /\ scan = ScanInit
    /\ pc = "scan"
    /\ result = FALSE
    /\ NoDetector
    /\ NoController

\* the language identifiers probes are made with: two that may hold JSX, one
\* of markup, one unsupported
ProbeLanguages == {"typescriptreact", "javascript", "html", "plaintext"}

\* a call isJsxTextContext({languageId: lang, text, offset: o})
StartProbe(f, doc, o, lang) ==
    /\ entry = "isJsxTextContext"
    /\ languageId = lang
    /\ fam = f
    /\ text = Flatten(doc)
    /\ offset = o
    /\ zone = ZoneAt(doc, o)
    /\ sourceFile = createSourceFile(doc)
    /\ parsed = FALSE
    /\ scan = ScanInit
    /\ pc = "call"
    /\ result = FALSE
    /\ NoDetector
    /\ NoController

Init ==
    \/ \E doc \in ElementDocs : \E o \in AllOffsets(doc) : StartScan("element", doc, o)
    \/ \E doc \in NoMarkupDocs : \E o \in AllOffsets(doc) : StartScan("nomarkup", doc, o)
    \/ \E doc \in PredecessorDocs : \E o \in ContentOffsets(doc) : StartScan("predecessor", doc, o)
    \/ \E doc \in FragmentDocs : \E o \in AllOffsets(doc) : StartScan("fragment", doc, o)
    \/ \E doc \in UnclosedDocs : \E o \in AllOffsets(doc) : StartScan("unclosed", doc, o)
    \/ \E doc \in CloserDocs : \E o \in AllOffsets(doc) : StartScan("closers", doc, o)
    \/ \E doc \in StringDocs : \E o \in AllOffsets(doc) : StartScan("string", doc, o)
    \/ \E doc \in TemplateDocs : \E o \in AllOffsets(doc) : StartScan("template", doc, o)
    \/ \E doc \in TagStartDocs : StartScan("tagstart", doc, Len(Flatten(doc)))
    \/ \E doc \in ElementDocs : \E o \in AllOffsets(doc) : \E lang \in ProbeLanguages :
          StartProbe("element", doc, o, lang)
    \/ \E doc \in ComparisonDocs : \E o \in AllOffsets(doc) : \E lang \in JSX_LANGUAGES :
          StartProbe("comparison", doc, o, lang)

\* the loop of isInJsxTextContent is at character scan.i, which takes branch br
AtBranch(br) ==
    /\ pc = "scan"
    /\ scan.i < offset
    /\ Branch(text, scan) = br

\* lines 262-264: the character after a backslash, in a string or template
ScanEscaped ==
    /\ AtBranch("escape")
    /\ scan' = ScanStep(text, scan)
    /\ UNCHANGED <<settingsVars, detectorVars, probe, parsed, pc, result>>

\* lines 267-271: a quote opens string mode
ScanStringOpen ==
    /\ AtBranch("stringOpen")
    /\ scan' = ScanStep(text, scan)
    /\ UNCHANGED <<settingsVars, detectorVars, probe, parsed, pc, result>>

\* lines 272-275: the same quote closes string mode
ScanStringClose ==
    /\ AtBranch("stringClose")
    /\ scan' = ScanStep(text, scan)
    /\ UNCHANGED <<settingsVars, detectorVars, probe, parsed, pc, result>>

\* lines 276-278: any other character of a string
ScanInString ==
    /\ AtBranch("string")
    /\ scan' = ScanStep(text, scan)
    /\ UNCHANGED <<settingsVars, detectorVars, probe, parsed, pc, result>>

\* lines 281-285: a backquote opens template mode
ScanTemplateOpen ==
    /\ AtBranch("templateOpen")
    /\ scan' = ScanStep(text, scan)
    /\ UNCHANGED <<settingsVars, detectorVars, probe, parsed, pc, result>>

\* lines 286-296: a character of a template literal
ScanInTemplate ==
    /\ AtBranch("template")
    /\ scan' = ScanStep(text, scan)
    /\ UNCHANGED <<settingsVars, detectorVars, probe, parsed, pc, result>>

\* lines 299-319: a character of a {...} expression in markup content
ScanInExpression ==
    /\ AtBranch("expression")
    /\ scan' = ScanStep(text, scan)
    /\ UNCHANGED <<settingsVars, detectorVars, probe, parsed, pc, result>>

\* lines 322-337: a < that isLikelyTagStart accepts
ScanTagStart ==
    /\ AtBranch("tagStart")
    /\ scan' = ScanStep(text, scan)
    /\ UNCHANGED <<settingsVars, detectorVars, probe, parsed, pc, result>>

\* lines 340-375: a > that ends a tag
ScanTagEnd ==
    /\ AtBranch("tagEnd")
    /\ scan' = ScanStep(text, scan)
    /\ UNCHANGED <<settingsVars, detectorVars, probe, parsed, pc, result>>

\* lines 378-387: a </> that was not taken as a tag start
ScanFragmentClose ==
    /\ AtBranch("fragmentClose")
    /\ scan' = ScanStep(text, scan)
    /\ UNCHANGED <<settingsVars, detectorVars, probe, parsed, pc, result>>

\* any other character: only the brace counters may change
ScanOther ==
    /\ AtBranch("other")
    /\ scan' = ScanStep(text, scan)
    /\ UNCHANGED <<settingsVars, detectorVars, probe, parsed, pc, result>>

\* the loop ends and the verdict is read off the scan state
ScanReturn ==
    /\ pc = "scan"
    /\ scan.i >= offset
    /\ result' = Verdict(scan)
    /\ pc' = "done"
    /\ UNCHANGED <<settingsVars, detectorVars, probe, parsed, scan>>

(***************************************************************************)
(* A call of isJsxTextContext (contextDetector.ts 105-145), one action per *)
(* way through it.                                                         *)
(***************************************************************************)
\* lines 106-108: a markup language goes to the markup scanner
JsxTextContextMarkup ==
    /\ pc = "call"
    /\ entry = "isJsxTextContext"
    /\ languageId \in MARKUP_LANGUAGES
    /\ result' = isJsxTextContext(languageId, sourceFile, text, offset)
    /\ pc' = "done"
    /\ UNCHANGED <<settingsVars, detectorVars, probe, parsed, scan>>

\* lines 110-112: an offset outside the text
JsxTextContextOutOfRange ==
    /\ pc = "call"
    /\ entry = "isJsxTextContext"
    /\ languageId \notin MARKUP_LANGUAGES
    /\ (offset < 0 \/ offset > Len(text))
    /\ result' = isJsxTextContext(languageId, sourceFile, text, offset)
    /\ pc' = "done"
    /\ UNCHANGED <<settingsVars, detectorVars, probe, parsed, scan>>

\* lines 114-144: the text is parsed and the offset classified in the tree
JsxTextContextParse ==
    /\ pc = "call"
    /\ entry = "isJsxTextContext"
    /\ languageId \notin MARKUP_LANGUAGES
    /\ ~(offset < 0 \/ offset > Len(text))
    /\ parsed' = TRUE
    /\ result' = isJsxTextContext(languageId, sourceFile, text, offset)
    /\ pc' = "done"
    /\ UNCHANGED <<settingsVars, detectorVars, probe, scan>>

Next ==
    \/ ScanEscaped
    \/ ScanStringOpen
    \/ ScanStringClose
    \/ ScanInString
    \/ ScanTemplateOpen
    \/ ScanInTemplate
    \/ ScanInExpression
    \/ ScanTagStart
    \/ ScanTagEnd
    \/ ScanFragmentClose
    \/ ScanOther
    \/ ScanReturn
    \/ JsxTextContextMarkup
    \/ JsxTextContextOutOfRange
    \/ JsxTextContextParse

Spec == Init /\ [][Next]_vars

(***************************************************************************)
(* Markup documents for the markup scanner (contextDetector.ts 293-329):   *)
(* tags and comments, each optionally followed by text.                    *)
(***************************************************************************)
\* the most tags and comments of a markup document
MaxMarkup == 2

MarkupTags ==
    { <<"<","p",">">>,
      <<"<","b","r","/",">">>,
      <<"<","a"," ","b","=","\"",">","\"",">">>,
      <<"<","/","p",">">> }

MarkupComments ==
    { <<"<","!","-","-","c","-","-",">">>,
      <<"<","!","-","-","a",">","b","-","-",">">> }

\* a tag or a comment, alone or followed by the text a
MarkupAtoms ==
    { << Piece("mtag", "markup", t) >> : t \in MarkupTags }
    \cup { << Piece("mtag", "markup", t), Piece("ttext", "markup", <<"a">>) >> :
             t \in MarkupTags }
    \cup { << Piece("comment", "markup", c) >> : c \in MarkupComments }
    \cup { << Piece("comment", "markup", c), Piece("ctext", "markup", <<"a">>) >> :
             c \in MarkupComments }

MarkupDocs == Concats(MarkupAtoms, MaxMarkup) \ { <<>> }

\* the region of a markup document in which an offset lies: "tag" and
\* "comment" strictly after the < and at or before the last >, "afterTag" and
\* "afterComment" from just after that > to the next <
MarkupZoneAt(doc, o) ==
    IF o < 0 \/ o > Len(Flatten(doc)) THEN "outOfRange"
    ELSE IF o = 0 THEN "start"
    ELSE LET p == LeftPiece(doc, 1, o)
         IN  CASE p.k = "mtag" /\ p.inside -> "tag"
               [] p.k = "comment" /\ p.inside -> "comment"
               [] p.k \in {"mtag", "ttext"} -> "afterTag"
               [] OTHER -> "afterComment"

\* a call isJsxTextContext({languageId: lang, text, offset: o}) for a markup
\* document
StartMarkup(doc, o, lang) ==
    /\ entry = "isJsxTextContext"
    /\ languageId = lang
    /\ fam = "markup"
    /\ text = Flatten(doc)
    /\ offset = o
    /\ zone = MarkupZoneAt(doc, o)
    /\ sourceFile = <<>>
    /\ parsed = FALSE
    /\ scan = ScanInit
    /\ pc = "call"
    /\ result = FALSE
    /\ NoDetector
    /\ NoController

MarkupInit ==
    \E doc \in MarkupDocs : \E o \in AllOffsets(doc) : \E lang \in {"html", "xml"} :
        StartMarkup(doc, o, lang)

MarkupNext == JsxTextContextMarkup

SpecMarkup == MarkupInit /\ [][MarkupNext]_vars

(***************************************************************************)
(* JsxContextDetector (contextDetector.ts 26-103): the syntax-tree         *)
(* classifier behind a one-entry cache keyed by document uri, document     *)
(* version and cursor position, with a time to live.                       *)
(***************************************************************************)
DEFAULT_CACHE_TTL_MS == 500

\* lines 100-102
isSupported(lang) == lang \in JSX_LANGUAGES \/ lang \in MARKUP_LANGUAGES

\* the constructor without the floor of 0 (Math.max dropped)
Constructor_NoFloor(configured) ==
    [ cacheTtlMs |-> IF configured = <<>> THEN DEFAULT_CACHE_TTL_MS ELSE configured[1],
      cache |-> <<>> ]

\* lines 36-38; configured is <<>> for an omitted argument, <<n>> for n
Constructor(configured) ==
    [ cacheTtlMs |-> Max(0, IF configured = <<>> THEN DEFAULT_CACHE_TTL_MS
                            ELSE configured[1]),
      cache |-> <<>> ]

\* ---- vscode.TextDocument: lines, positions and offsets
\* the number of line breaks in the first n characters of t
RECURSIVE BreaksBefore(_, _)
BreaksBefore(t, n) ==
    IF n = 0 THEN 0
    ELSE BreaksBefore(t, n - 1) + (IF t[n] = "\n" THEN 1 ELSE 0)

lineCount(t) == BreaksBefore(t, Len(t)) + 1

\* the offset at which line l starts (0 <= l < lineCount(t))
LineStart(t, l) ==
    IF l = 0 THEN 0
    ELSE CHOOSE o \in 1..Len(t) : t[o] = "\n" /\ BreaksBefore(t, o) = l

\* the length of line l without its line break
LineLength(t, l) ==
    (IF l + 1 < lineCount(t) THEN LineStart(t, l + 1) - 1 ELSE Len(t)) - LineStart(t, l)

\* document.offsetAt(position), line 62: the position is adjusted to the
\* document first (a line past the end becomes the end of the last line, a
\* character past the end of the line becomes the end of the line)
offsetAt(t, position) ==
    IF position.line >= lineCount(t) THEN Len(t)
    ELSE LineStart(t, position.line)
         + Min(position.character, LineLength(t, position.line))

\* ---- the documents of the workspace
Uris == {"a.tsx", "b.ts", "c.html", "d.txt"}

LanguageOf(uri) ==
    CASE uri = "a.tsx" -> "typescriptreact"
      [] uri = "b.ts" -> "typescript"
      [] uri = "c.html" -> "html"
      [] OTHER -> "plaintext"

\* the most edits of one document
MaxVersion == 2

\* the content of a document is determined by its uri and version: an edit
\* bumps the version
DocOf(uri, version) ==
    LET odd == version % 2 = 1
        d == CASE uri = "a.tsx" /\ odd -> <<"<","d",">">>
               [] uri = "a.tsx" /\ ~odd -> <<"<","d","d",">">>
               [] OTHER -> <<"<","d",">">>
        body == CASE uri = "a.tsx" -> <<"\n","a">>
                  [] OTHER -> <<"a">>
        element == << Piece("open", "open", d), Piece("text", "text", body),
                      Piece("close", "close", <<"<","/">> \o Tail(d)),
                      Piece("tail", "code", <<";">>) >>
    IN  IF uri = "b.ts" /\ ~odd
        THEN << Piece("code", "code", <<"a"," ","<"," ","b",";">>) >>
        ELSE element

TextDocument(uri, version) ==
    [uri |-> uri, version |-> version, languageId |-> LanguageOf(uri)]

Positions == { [line |-> l, character |-> c] : l \in 0..1, c \in {1, 3} }

\* isCacheValid without the comparison of versions (lines 85-87 dropped)
isCacheValid_NoVersion(d, document, position, t) ==
    IF d.cache = <<>> THEN FALSE
    ELSE IF d.cache[1].uri # document.uri THEN FALSE
    ELSE IF d.cache[1].position # position THEN FALSE
    ELSE IF d.cacheTtlMs = 0 THEN FALSE
    ELSE t - d.cache[1].timestamp < d.cacheTtlMs

\* isCacheValid without the expiry of the entry (line 97 returns true)
isCacheValid_NoExpiry(d, document, position, t) ==
    IF d.cache = <<>> THEN FALSE
    ELSE IF d.cache[1].uri # document.uri THEN FALSE
    ELSE IF d.cache[1].version # document.version THEN FALSE
    ELSE IF d.cache[1].position # position THEN FALSE
    ELSE d.cacheTtlMs # 0

\* lines 76-98; t is the value clock() returns if it is called
isCacheValid(d, document, position, t) ==
    IF d.cache = <<>> THEN FALSE
    ELSE IF d.cache[1].uri # document.uri THEN FALSE
    ELSE IF d.cache[1].version # document.version THEN FALSE
    ELSE IF d.cache[1].position # position THEN FALSE
    ELSE IF d.cacheTtlMs = 0 THEN FALSE
    ELSE t - d.cache[1].timestamp < d.cacheTtlMs

\* the probe of lines 46-51 and 58-63 handed to the classifier
ProbeOf(document, position) ==
    [ languageId |-> document.languageId,
      text |-> Flatten(DocOf(document.uri, document.version)),
      offset |-> offsetAt(Flatten(DocOf(document.uri, document.version)), position) ]

\* the probes of all documents (uri and version) and positions, computed
\* once
Probes == [ u \in Uris, v \in 1..MaxVersion, position \in Positions |->
              ProbeOf(TextDocument(u, v), position) ]

\* the verdict of the classifier a document is handed to (lines 46 and 58)
\* for every document and position, computed once
Classify == [ u \in Uris, v \in 1..MaxVersion, position \in Positions |->
    LET pr == Probes[u, v, position]
    IN  IF pr.languageId \in MARKUP_LANGUAGES
        THEN isMarkupTextContext(pr.text, pr.offset)
        ELSE isJsxTextContext(pr.languageId, createSourceFile(DocOf(u, v)),
                              pr.text, pr.offset) ]

\* the region of the document in which the offset of a position lies
Zones == [ u \in Uris, v \in 1..MaxVersion, position \in Positions |->
             ZoneAt(DocOf(u, v), Probes[u, v, position].offset) ]

\* isInsideJsxText that keeps the timestamp of the entry it replaces
JsxContextDetector_isInsideJsxText_KeepsTimestamp(d, document, position, t1, t2) ==
    IF ~isSupported(document.languageId)
    THEN [result |-> FALSE, detector |-> d, classified |-> FALSE]
    ELSE IF document.languageId \in MARKUP_LANGUAGES
    THEN [ result |-> Classify[document.uri, document.version, position],
           detector |-> d, classified |-> FALSE ]
    ELSE IF isCacheValid(d, document, position, t1)
    THEN [result |-> d.cache[1].result, detector |-> d, classified |-> FALSE]
    ELSE LET r == Classify[document.uri, document.version, position]
         IN  [ result |-> r,
               detector |-> [d EXCEPT !.cache =
                   << [ uri |-> document.uri, version |-> document.version,
                        position |-> position,
                        timestamp |-> IF d.cache = <<>> THEN t2 ELSE d.cache[1].timestamp,
                        result |-> r ] >>],
               classified |-> TRUE ]

\* isInsideJsxText with a markup document classified through the cache like a
\* code document (lines 45-52 dropped)
JsxContextDetector_isInsideJsxText_MarkupCached(d, document, position, t1, t2) ==
    IF ~isSupported(document.languageId)
    THEN [result |-> FALSE, detector |-> d, classified |-> FALSE]
    ELSE IF isCacheValid(d, document, position, t1)
    THEN [result |-> d.cache[1].result, detector |-> d, classified |-> FALSE]
    ELSE LET r == Classify[document.uri, document.version, position]
         IN  [ result |-> r,
               detector |-> [d EXCEPT !.cache =
                   << [ uri |-> document.uri, version |-> document.version,
                        position |-> position, timestamp |-> t2, result |-> r ] >>],
               classified |-> document.languageId \in JSX_LANGUAGES ]

\* isInsideJsxText that stamps the entry anew when it serves it (line 55
\* refreshing cache.timestamp)
JsxContextDetector_isInsideJsxText_RefreshOnHit(d, document, position, t1, t2) ==
    IF ~isSupported(document.languageId)
    THEN [result |-> FALSE, detector |-> d, classified |-> FALSE]
    ELSE IF document.languageId \in MARKUP_LANGUAGES
    THEN [ result |-> Classify[document.uri, document.version, position],
           detector |-> d, classified |-> FALSE ]
    ELSE IF isCacheValid(d, document, position, t1)
    THEN [ result |-> d.cache[1].result,
           detector |-> [d EXCEPT !.cache[1].timestamp = t1],
           classified |-> FALSE ]
    ELSE LET r == Classify[document.uri, document.version, position]
         IN  [ result |-> r,
               detector |-> [d EXCEPT !.cache =
                   << [ uri |-> document.uri, version |-> document.version,
                        position |-> position, timestamp |-> t2, result |-> r ] >>],
               classified |-> TRUE ]

\* lines 40-74: the value returned, the detector afterwards, and whether
\* isJsxTextContext was called for a code dialect; t1 and t2 are the values
\* of clock() at lines 97 and 69
JsxContextDetector_isInsideJsxText(d, document, position, t1, t2) ==
    IF ~isSupported(document.languageId)
    THEN [result |-> FALSE, detector |-> d, classified |-> FALSE]
    ELSE IF document.languageId \in MARKUP_LANGUAGES
    THEN [ result |-> Classify[document.uri, document.version, position],
           detector |-> d, classified |-> FALSE ]
    ELSE IF isCacheValid(d, document, position, t1)
    THEN [result |-> d.cache[1].result, detector |-> d, classified |-> FALSE]
    ELSE LET r == Classify[document.uri, document.version, position]
         IN  [ result |-> r,
               detector |-> [d EXCEPT !.cache =
                   << [ uri |-> document.uri, version |-> document.version,
                        position |-> position, timestamp |-> t2, result |-> r ] >>],
               classified |-> TRUE ]

(***************************************************************************)
(* The state machine of the detector: calls of isInsideJsxText for the     *)
(* documents of the workspace, between edits and while time passes.        *)
(***************************************************************************)
\* the values of the cacheTtlMs argument: omitted, negative, zero, positive
ConfiguredTtls == { <<>>, <<-1>>, <<0>>, <<1>> }

\* the values the clock returns; their differences lie on both sides of
\* either positive time to live
ClockValues == {0, 1, 500}

DetectorInit ==
    /\ entry = "JsxContextDetector.isInsideJsxText"
    /\ languageId = ""
    /\ text = <<>>
    /\ offset = 0
    /\ fam = "detector"
    /\ zone = ""
    /\ sourceFile = <<>>
    /\ parsed = FALSE
    /\ scan = ScanInit
    /\ pc = "idle"
    /\ result = FALSE
    /\ configuredTtl \in ConfiguredTtls
    /\ detector = Constructor(configuredTtl)
    /\ now \in ClockValues
    /\ documents = [u \in Uris |-> 1]
    /\ call = <<>>
    /\ NoController

\* the call isInsideJsxText(document of uri u, position p) returns; t2 is the
\* value of the clock when the entry is stored
Returns(u, p, t2) ==
    LET document == TextDocument(u, documents[u])
        pr == Probes[u, documents[u], p]
        out == JsxContextDetector_isInsideJsxText(detector, document, p, now, t2)
    IN  /\ detector' = out.detector
        /\ result' = out.result
        /\ now' = IF out.classified THEN t2 ELSE now
        /\ call' = << [ uri |-> u, version |-> document.version, position |-> p,
                        classified |-> out.classified ] >>
        /\ languageId' = pr.languageId
        /\ text' = pr.text
        /\ offset' = pr.offset
        /\ zone' = Zones[u, documents[u], p]
        /\ parsed' = out.classified
        /\ pc' = "done"
        /\ UNCHANGED <<entry, fam, sourceFile, scan, configuredTtl, documents, settingsVars>>

\* lines 41-43: a document of an unsupported language
CallUnsupported ==
    /\ entry = "JsxContextDetector.isInsideJsxText"
    /\ \E u \in Uris : \E p \in Positions :
          /\ ~isSupported(LanguageOf(u))
          /\ Returns(u, p, now)

\* lines 45-52: a markup document
CallMarkup ==
    /\ entry = "JsxContextDetector.isInsideJsxText"
    /\ \E u \in Uris : \E p \in Positions :
          /\ LanguageOf(u) \in MARKUP_LANGUAGES
          /\ Returns(u, p, now)

\* lines 54-56: a code document, the cache entry is valid
CallCacheHit ==
    /\ entry = "JsxContextDetector.isInsideJsxText"
    /\ \E u \in Uris : \E p \in Positions :
          /\ LanguageOf(u) \in JSX_LANGUAGES
          /\ isCacheValid(detector, TextDocument(u, documents[u]), p, now)
          /\ Returns(u, p, now)

\* lines 58-73: a code document, no valid cache entry
CallCacheMiss ==
    /\ entry = "JsxContextDetector.isInsideJsxText"
    /\ \E u \in Uris : \E p \in Positions : \E t2 \in ClockValues :
          /\ LanguageOf(u) \in JSX_LANGUAGES
          /\ ~isCacheValid(detector, TextDocument(u, documents[u]), p, now)
          /\ Returns(u, p, t2)

\* the record of the last call is dropped when the environment moves on
Forgotten ==
    /\ call' = <<>>
    /\ languageId' = ""
    /\ text' = <<>>
    /\ offset' = 0
    /\ zone' = ""
    /\ parsed' = FALSE
    /\ result' = FALSE
    /\ pc' = "idle"

\* the clock moves to another value
Tick ==
    /\ entry = "JsxContextDetector.isInsideJsxText"
    /\ \E t \in ClockValues \ {now} : now' = t
    /\ Forgotten
    /\ UNCHANGED <<entry, fam, sourceFile, scan, configuredTtl, detector, documents,
                   settingsVars>>

\* a code document is edited: its version is bumped (the version of a
\* document of another language is never read, lines 41-52)
ChangeDocument ==
    /\ entry = "JsxContextDetector.isInsideJsxText"
    /\ \E u \in Uris :
          /\ LanguageOf(u) \in JSX_LANGUAGES
          /\ documents[u] < MaxVersion
          /\ documents' = [documents EXCEPT ![u] = @ + 1]
    /\ Forgotten
    /\ UNCHANGED <<entry, fam, sourceFile, scan, configuredTtl, detector, now,
                   settingsVars>>

DetectorNext ==
    \/ CallUnsupported
    \/ CallMarkup
    \/ CallCacheHit
    \/ CallCacheMiss
    \/ Tick
    \/ ChangeDocument

SpecDetector == DetectorInit /\ [][DetectorNext]_vars


(***************************************************************************)
(* SuggestionSettingsController (src/unnamed/part_000): editor.            *)
(* quickSuggestions is forced to false for a workspace key and restored    *)
(* from a snapshot.  A Map is a sequence of <<key, value>> pairs in        *)
(* insertion order.  One operation runs at a time; it takes one step up to *)
(* each await.                                                             *)
(***************************************************************************)
MapHas(m, k) == \E i \in 1..Len(m) : m[i][1] = k

MapGet(m, k) == m[CHOOSE i \in 1..Len(m) : m[i][1] = k][2]

MapSet(m, k, v) ==
    IF MapHas(m, k)
    THEN [i \in 1..Len(m) |-> IF m[i][1] = k THEN <<k, v>> ELSE m[i]]
    ELSE Append(m, <<k, v>>)

RECURSIVE MapDelete(_, _)
MapDelete(m, k) ==
    IF m = <<>> THEN <<>>
    ELSE IF Head(m)[1] = k THEN MapDelete(Tail(m), k)
    ELSE <<Head(m)>> \o MapDelete(Tail(m), k)

\* new Map(raw), line 109: a later pair of a key replaces an earlier one
RECURSIVE MapOf(_)
MapOf(raw) ==
    IF raw = <<>> THEN <<>>
    ELSE MapSet(MapOf(SubSeq(raw, 1, Len(raw) - 1)), raw[Len(raw)][1], raw[Len(raw)][2])

\* lines 107-110
loadPersisted(m) == MapOf(m)

\* lines 112-115: the entries handed to memento.update
savePersisted(persisted) == persisted

\* ---- the workspace: one folder, and documents inside and outside it
Folder == "file:///f"

\* the keys of getTargetContext, lines 91-92
Keys == {Folder, "workspace"}

\* the configuration scopes: the user settings (or the default), the
\* workspace settings, the settings of the folder
Scopes == {"user"} \cup Keys

\* the values of editor.quickSuggestions; "undefined": not set at a scope
Values == {"true", "false", "object"}

SettingsDocuments ==
    { [uri |-> "file:///f/a.tsx", folder |-> <<Folder>>],
      [uri |-> "file:///x.tsx", folder |-> <<>>] }

\* lines 87-96: the key and the target scope of a document
getTargetContext(document) ==
    [ key |-> IF document.folder # <<>> THEN document.folder[1] ELSE "workspace",
      target |-> IF document.folder # <<>> THEN document.folder[1] ELSE "workspace",
      resource |-> document ]

\* config.get('editor.quickSuggestions') of the configuration of a
\* resource (lines 44, 93): the value of the innermost scope that sets it
ConfigGet(config, document) ==
    IF document.folder # <<>> /\ config[document.folder[1]] # "undefined"
    THEN config[document.folder[1]]
    ELSE IF config["workspace"] # "undefined" THEN config["workspace"]
    ELSE config["user"]

\* config.update('editor.quickSuggestions', value, target), once completed
ConfigUpdate(config, target, value) == [config EXCEPT ![target] = value]

\* the document of a key
DocumentOf(key) == CHOOSE d \in SettingsDocuments : getTargetContext(d).key = key

\* the snapshots a previous session may have left in the memento
Leftovers ==
    { <<>>,
      << <<"workspace", [quickSuggestions |-> "object"]>> >>,
      << <<Folder, [quickSuggestions |-> "true"]>> >> }

\* the snapshots of one key or of both
GateLeftovers ==
    Leftovers \cup
    { << <<Folder, [quickSuggestions |-> "true"]>>,
         <<"workspace", [quickSuggestions |-> "object"]>> >> }

\* lines 22-24: the controller constructed on a memento
SettingsInit ==
    /\ entry = "SuggestionSettingsController"
    /\ languageId = ""
    /\ text = <<>>
    /\ offset = 0
    /\ fam = "settings"
    /\ zone = ""
    /\ sourceFile = <<>>
    /\ parsed = FALSE
    /\ scan = ScanInit
    /\ pc = "idle"
    /\ result = FALSE
    /\ NoDetector
    /\ NoGate
    /\ memento \in GateLeftovers
    /\ controller = [snapshots |-> <<>>, state |-> <<>>,
                     persisted |-> loadPersisted(memento)]
    /\ configuration \in { c \in [Scopes -> Values \cup {"undefined"}] :
                             c["user"] # "undefined" }
    /\ op = [name |-> "", key |-> "", pc |-> "returned",
             configWrites |-> 0, mementoWrites |-> 0, entries |-> <<>>]
    /\ prior = [k \in Keys |-> <<>>]

\* what the steps of the controller leave alone
SettingsFrame ==
    UNCHANGED <<entry, languageId, text, offset, fam, zone, sourceFile, parsed, scan,
                pc, result, detectorVars, gate, startup, legacy>>

\* a call starts when no operation is in progress
Idle ==
    /\ entry = "SuggestionSettingsController"
    /\ op.pc = "returned"
    /\ startup.pc \in {"none", "done"}

Called(name, key) ==
    [ name |-> name, key |-> key, pc |-> "returned", configWrites |-> 0,
      mementoWrites |-> 0, entries |-> <<>> ]

\* disableFor that takes and persists a snapshot for a key that is disabled
\* (lines 39-41 dropped)
DisableForDisabled_Resnapshot ==
    /\ Idle
    /\ \E document \in SettingsDocuments :
          LET key == getTargetContext(document).key
              snapshot == [quickSuggestions |-> ConfigGet(configuration, document)]
          IN  /\ MapHas(controller.state, key)
              /\ MapGet(controller.state, key) = "disabled"
              /\ controller' = [controller EXCEPT
                     !.snapshots = MapSet(@, key, snapshot),
                     !.persisted = MapSet(@, key, snapshot)]
              /\ memento' = savePersisted(controller'.persisted)
              /\ op' = [Called("disableFor", key) EXCEPT !.pc = "saving", !.mementoWrites = 1]
    /\ UNCHANGED <<configuration, prior>>
    /\ SettingsFrame

\* lines 37-41: disableFor for a key that is disabled returns at once
DisableForDisabled ==
    /\ Idle
    /\ \E document \in SettingsDocuments :
          LET key == getTargetContext(document).key
          IN  /\ MapHas(controller.state, key)
              /\ MapGet(controller.state, key) = "disabled"
              /\ op' = Called("disableFor", key)
    /\ UNCHANGED <<controller, memento, configuration, prior>>
    /\ SettingsFrame

\* lines 37-49: the snapshot is taken, stored and persisted
DisableForSnapshot ==
    /\ Idle
    /\ \E document \in SettingsDocuments :
          LET key == getTargetContext(document).key
              snapshot == [quickSuggestions |-> ConfigGet(configuration, document)]
          IN  /\ ~(MapHas(controller.state, key) /\ MapGet(controller.state, key) = "disabled")
              /\ controller' = [controller EXCEPT
                     !.snapshots = MapSet(@, key, snapshot),
                     !.persisted = MapSet(@, key, snapshot)]
              /\ memento' = savePersisted(controller'.persisted)
              /\ op' = [Called("disableFor", key) EXCEPT !.pc = "saving", !.mementoWrites = 1]
              /\ prior' = [prior EXCEPT ![key] = <<snapshot.quickSuggestions>>]
    /\ UNCHANGED configuration
    /\ SettingsFrame

\* lines 50-52: after the save, the key is disabled and the update is issued
DisableForUpdate ==
    /\ entry = "SuggestionSettingsController"
    /\ op.name = "disableFor" /\ op.pc = "saving"
    /\ controller' = [controller EXCEPT !.state = MapSet(@, op.key, "disabled")]
    /\ op' = [op EXCEPT !.pc = "updating"]
    /\ UNCHANGED <<memento, configuration, prior>>
    /\ SettingsFrame

\* line 52: the update of the setting to false completes, disableFor returns
DisableForReturn ==
    /\ entry = "SuggestionSettingsController"
    /\ op.name = "disableFor" /\ op.pc = "updating"
    /\ configuration' = ConfigUpdate(configuration,
                            getTargetContext(DocumentOf(op.key)).target, "false")
    /\ op' = [op EXCEPT !.pc = "returned", !.configWrites = @ + 1]
    /\ UNCHANGED <<controller, memento, prior>>
    /\ SettingsFrame

\* lines 56-60: restore for a key that is not disabled returns at once
RestoreNotDisabled ==
    /\ Idle
    /\ \E document \in SettingsDocuments :
          LET key == getTargetContext(document).key
          IN  /\ ~(MapHas(controller.state, key) /\ MapGet(controller.state, key) = "disabled")
              /\ op' = Called("restore", key)
    /\ UNCHANGED <<controller, memento, configuration, prior>>
    /\ SettingsFrame

\* lines 56-65 (and 70-71 when no snapshot is stored): the update of the
\* setting to the snapshot's value is issued
RestoreIssue ==
    /\ Idle
    /\ \E document \in SettingsDocuments :
          LET key == getTargetContext(document).key
          IN  /\ MapHas(controller.state, key)
              /\ MapGet(controller.state, key) = "disabled"
              /\ IF MapHas(controller.snapshots, key)
                 THEN /\ op' = [Called("restore", key) EXCEPT !.pc = "updating"]
                      /\ UNCHANGED controller
                 ELSE /\ op' = Called("restore", key)
                      /\ controller' = [controller EXCEPT
                             !.state = MapSet(@, key, "enabled"),
                             !.snapshots = MapDelete(@, key)]
    /\ UNCHANGED <<memento, configuration, prior>>
    /\ SettingsFrame

\* restore that removes the setting at the target scope instead of writing
\* the snapshot's value
RestoreSave_RemovesOverride ==
    /\ entry = "SuggestionSettingsController"
    /\ op.name = "restore" /\ op.pc = "updating"
    /\ configuration' = ConfigUpdate(configuration,
                            getTargetContext(DocumentOf(op.key)).target, "undefined")
    /\ controller' = [controller EXCEPT !.persisted = MapDelete(@, op.key)]
    /\ memento' = savePersisted(controller'.persisted)
    /\ op' = [op EXCEPT !.pc = "saving", !.configWrites = @ + 1, !.mementoWrites = @ + 1]
    /\ UNCHANGED prior
    /\ SettingsFrame

\* lines 65-67: the update completes, the persisted snapshot is deleted and
\* the deletion saved
RestoreSave ==
    /\ entry = "SuggestionSettingsController"
    /\ op.name = "restore" /\ op.pc = "updating"
    /\ configuration' = ConfigUpdate(configuration,
                            getTargetContext(DocumentOf(op.key)).target,
                            MapGet(controller.snapshots, op.key).quickSuggestions)
    /\ controller' = [controller EXCEPT !.persisted = MapDelete(@, op.key)]
    /\ memento' = savePersisted(controller'.persisted)
    /\ op' = [op EXCEPT !.pc = "saving", !.configWrites = @ + 1, !.mementoWrites = @ + 1]
    /\ UNCHANGED prior
    /\ SettingsFrame

\* lines 70-71: after the save, the key is enabled and its snapshot dropped
RestoreReturn ==
    /\ entry = "SuggestionSettingsController"
    /\ op.name = "restore" /\ op.pc = "saving"
    /\ controller' = [controller EXCEPT
           !.state = MapSet(@, op.key, "enabled"),
           !.snapshots = MapDelete(@, op.key)]
    /\ op' = [op EXCEPT !.pc = "returned"]
    /\ UNCHANGED <<memento, configuration, prior>>
    /\ SettingsFrame


(***************************************************************************)
(* activate and SuggestionGate (src/unnamed/part_001) on the settings      *)
(* controller: activate starts restorePersisted without awaiting it and    *)
(* hands the editor events to the gate, which queues one task per call of  *)
(* applySettings on the promise chain inflight.  A task runs when the one  *)
(* before it has settled; restorePersisted runs beside the chain.  Each    *)
(* step runs the code up to the next await; an update of the configuration *)
(* takes effect when it completes, a write of the memento when it is       *)
(* issued.                                                                 *)
(***************************************************************************)
\* the most editor events the gate handles, the one of initialize included
MaxEvents == 3
\* the most rejections of configuration or memento writes
MaxFailures == 1

\* vscode.workspace.workspaceFolders
WorkspaceFolders == <<Folder>>

\* lines 98-105: the target scope and the resource of a key
getContextByKey(key) ==
    [ key |-> key,
      target |-> IF \E n \in 1..Len(WorkspaceFolders) : WorkspaceFolders[n] = key
                 THEN key ELSE "workspace",
      resource |-> IF \E n \in 1..Len(WorkspaceFolders) : WorkspaceFolders[n] = key
                   THEN [uri |-> key, folder |-> <<key>>]
                   ELSE [uri |-> WorkspaceFolders[1], folder |-> <<WorkspaceFolders[1]>>] ]

\* lines 118-119: the keys ensureDefaultsIfForcedOff goes through
DefaultsKeys == WorkspaceFolders \o <<"workspace">>

\* lines 121-132: the index at or after n of the first key whose setting
\* ensureDefaultsIfForcedOff removes, or 0 when the loop ends without an
\* update
RECURSIVE ensureDefaultsIfForcedOff(_, _, _)
ensureDefaultsIfForcedOff(persisted, config, n) ==
    IF n > Len(DefaultsKeys) THEN 0
    ELSE IF MapHas(persisted, DefaultsKeys[n])
         THEN ensureDefaultsIfForcedOff(persisted, config, n + 1)
    ELSE IF ConfigGet(config, getContextByKey(DefaultsKeys[n]).resource) = "false"
         THEN n
    ELSE ensureDefaultsIfForcedOff(persisted, config, n + 1)

\* the setting of each scope a previous session may have left
GateConfigurations ==
    { c \in [Scopes -> Values \cup {"undefined"}] :
        /\ c["user"] = "true"
        /\ c["workspace"] \in {"undefined", "false", "object"}
        /\ c[Folder] \in {"undefined", "false", "true"} }

\* line 68: the controller has been constructed on the workspace memento
GateInit ==
    /\ entry = "activate"
    /\ languageId = ""
    /\ text = <<>>
    /\ offset = 0
    /\ fam = "gate"
    /\ zone = ""
    /\ sourceFile = <<>>
    /\ parsed = FALSE
    /\ scan = ScanInit
    /\ pc = "idle"
    /\ result = FALSE
    /\ NoDetector
    /\ memento \in GateLeftovers
    /\ controller = [snapshots |-> <<>>, state |-> <<>>,
                     persisted |-> loadPersisted(memento)]
    /\ configuration \in GateConfigurations
    /\ op = [name |-> "", key |-> "", pc |-> "returned",
             configWrites |-> 0, mementoWrites |-> 0, entries |-> <<>>]
    /\ prior = [k \in Keys |-> <<>>]
    /\ gate = [ inDisabledZone |-> FALSE, queue |-> <<>>, inflight |-> "fulfilled",
                active |-> <<>>, last |-> "", events |-> 0, scheduled |-> 0,
                ran |-> 0, skipped |-> 0, failures |-> 0, failedAt |-> 0 ]
    /\ startup = [ pc |-> "new", cur |-> <<>>, next |-> 0, key |-> 0,
                   leftovers |-> memento ]
    /\ legacy = NoLegacy

GateFrame ==
    UNCHANGED <<entry, languageId, text, offset, fam, zone, sourceFile, parsed, scan,
                pc, result, detectorVars, legacy>>

\* lines 52-64: applySettings chains one more task on inflight
applySettings(g, document, shouldDisable) ==
    [g EXCEPT !.queue = Append(@, [document |-> document, shouldDisable |-> shouldDisable,
                                   n |-> g.scheduled + 1]),
              !.scheduled = @ + 1]

\* lines 38-50: handleEditorChange for an editor (<<>>: undefined) whose
\* cursor the detector finds inside text content or not
handleEditorChange(g, editor, insideJsxText, skipHide) ==
    LET seen == [g EXCEPT !.events = @ + 1,
                          !.last = IF editor = <<>> THEN "undefined"
                                   ELSE IF insideJsxText THEN "inside" ELSE "outside"]
    IN  IF editor = <<>> THEN seen
        ELSE IF insideJsxText /\ ~skipHide THEN applySettings(seen, editor[1], TRUE)
        ELSE IF ~insideJsxText THEN applySettings(seen, editor[1], FALSE)
        ELSE seen

\* the editors: one on each document, or none
Editors == { <<d>> : d \in SettingsDocuments } \cup { <<>> }

\* lines 69-75: activate calls restorePersisted, which runs up to its first
\* await (the update of the first leftover, or the save of the cleared
\* store), then constructs the gate, whose initialize handles the active
\* editor
Activate ==
    /\ entry = "activate"
    /\ startup.pc = "new"
    /\ IF controller.persisted # <<>>
       THEN /\ startup' = [startup EXCEPT !.pc = "restoring",
                                          !.cur = controller.persisted[1], !.next = 2]
            /\ UNCHANGED <<controller, memento>>
       ELSE /\ startup' = [startup EXCEPT !.pc = "saving"]
            /\ memento' = savePersisted(controller.persisted)
            /\ UNCHANGED controller
    /\ \E editor \in Editors : \E insideJsxText \in BOOLEAN :
          gate' = handleEditorChange([gate EXCEPT !.active = editor], editor,
                                     insideJsxText, FALSE)
    /\ UNCHANGED <<configuration, op, prior>>
    /\ GateFrame

\* lines 27-29 and 82-85: the update of a leftover completes and the loop
\* goes on to the next entry of persisted
RestorePersistedNext ==
    /\ entry \in {"activate", "SuggestionSettingsController"}
    /\ startup.pc = "restoring"
    /\ startup.next <= Len(controller.persisted)
    /\ configuration' = ConfigUpdate(configuration, getContextByKey(startup.cur[1]).target,
                                     startup.cur[2].quickSuggestions)
    /\ startup' = [startup EXCEPT !.cur = controller.persisted[startup.next],
                                  !.next = @ + 1]
    /\ UNCHANGED <<controller, memento, op, prior, gate>>
    /\ GateFrame

\* lines 27-32: the update of the last entry completes, persisted is
\* cleared and saved
RestorePersistedClear ==
    /\ entry \in {"activate", "SuggestionSettingsController"}
    /\ startup.pc = "restoring"
    /\ startup.next > Len(controller.persisted)
    /\ configuration' = ConfigUpdate(configuration, getContextByKey(startup.cur[1]).target,
                                     startup.cur[2].quickSuggestions)
    /\ controller' = [controller EXCEPT !.persisted = <<>>]
    /\ memento' = savePersisted(controller'.persisted)
    /\ startup' = [startup EXCEPT !.pc = "saving", !.cur = <<>>]
    /\ UNCHANGED <<op, prior, gate>>
    /\ GateFrame

\* lines 32-33 and 117-133: the save completes and ensureDefaultsIfForcedOff
\* runs up to its first update
RestorePersistedDefaults ==
    /\ entry \in {"activate", "SuggestionSettingsController"}
    /\ startup.pc = "saving"
    /\ LET n == ensureDefaultsIfForcedOff(controller.persisted, configuration, 1)
       IN  startup' = [startup EXCEPT !.pc = IF n = 0 THEN "done" ELSE "defaults",
                                      !.key = n]
    /\ UNCHANGED <<controller, memento, configuration, op, prior, gate>>
    /\ GateFrame

\* lines 130-132: the removal of a forced-off setting completes and the loop
\* of ensureDefaultsIfForcedOff goes on
EnsureDefaultsUpdated ==
    /\ entry \in {"activate", "SuggestionSettingsController"}
    /\ startup.pc = "defaults"
    /\ configuration' = ConfigUpdate(configuration,
                            getContextByKey(DefaultsKeys[startup.key]).target, "undefined")
    /\ LET n == ensureDefaultsIfForcedOff(controller.persisted, configuration',
                                          startup.key + 1)
       IN  startup' = [startup EXCEPT !.pc = IF n = 0 THEN "done" ELSE "defaults",
                                      !.key = n]
    /\ UNCHANGED <<controller, memento, op, prior, gate>>
    /\ GateFrame

\* an editor event can be delivered once the gate is initialized
Listening ==
    /\ entry = "activate"
    /\ startup.pc # "new"
    /\ gate.events < MaxEvents

\* line 18: the selection of an editor changes
SelectionChanged ==
    /\ Listening
    /\ \E editor \in Editors \ { <<>> } : \E insideJsxText \in BOOLEAN :
          gate' = handleEditorChange(gate, editor, insideJsxText, FALSE)
    /\ UNCHANGED <<controller, memento, configuration, op, prior, startup>>
    /\ GateFrame

\* lines 19 and 28-36: the document of the active editor changes; a typed
\* tab does not hide
DocumentChanged ==
    /\ Listening
    /\ gate.active # <<>>
    /\ \E insideJsxText \in BOOLEAN : \E skipForTab \in BOOLEAN :
          gate' = handleEditorChange(gate, gate.active, insideJsxText, skipForTab)
    /\ UNCHANGED <<controller, memento, configuration, op, prior, startup>>
    /\ GateFrame

\* line 20: another editor, or none, becomes the active one
ActiveEditorChanged ==
    /\ Listening
    /\ \E editor \in Editors \ { gate.active } : \E insideJsxText \in BOOLEAN :
          gate' = handleEditorChange([gate EXCEPT !.active = editor], editor,
                                     insideJsxText, FALSE)
    /\ UNCHANGED <<controller, memento, configuration, op, prior, startup>>
    /\ GateFrame

\* applySettings that runs the task at once instead of chaining it on
\* inflight (line 53 without this.inflight.then): the call before it may be
\* in progress
TaskReady_Unchained ==
    /\ entry = "activate"
    /\ op.pc # "rejected"
    /\ gate.queue # <<>>

\* the task at the head of the chain starts: the one before it has settled
TaskReady ==
    /\ entry = "activate"
    /\ op.pc = "returned"
    /\ gate.queue # <<>>

\* the gate with the head task taken off the chain and its callback run
Taken(g) == [g EXCEPT !.queue = Tail(@), !.ran = Head(g.queue).n]

\* whether the key is in state 'disabled'
IsDisabled(c, key) == MapHas(c.state, key) /\ MapGet(c.state, key) = "disabled"

\* part_001 lines 54-56 and part_000 lines 37-41: the task disables and the
\* key is disabled already
GateDisableDisabled ==
    /\ TaskReady
    /\ gate.inflight = "fulfilled"
    /\ LET task == Head(gate.queue)
           key == getTargetContext(task.document).key
       IN  /\ task.shouldDisable /\ ~gate.inDisabledZone
           /\ IsDisabled(controller, key)
           /\ gate' = [Taken(gate) EXCEPT !.inDisabledZone = TRUE]
           /\ op' = Called("disableFor", key)
    /\ UNCHANGED <<controller, memento, configuration, prior, startup>>
    /\ GateFrame

\* part_001 lines 54-56 and part_000 lines 37-49: the task disables; the
\* snapshot is taken, stored and its save issued, which the memento accepts
\* or rejects
GateDisableSnapshot ==
    /\ TaskReady
    /\ gate.inflight = "fulfilled"
    /\ LET task == Head(gate.queue)
           key == getTargetContext(task.document).key
           snapshot == [quickSuggestions |-> ConfigGet(configuration, task.document)]
       IN  /\ task.shouldDisable /\ ~gate.inDisabledZone
           /\ ~IsDisabled(controller, key)
           /\ gate' = [Taken(gate) EXCEPT !.inDisabledZone = TRUE]
           /\ controller' = [controller EXCEPT
                  !.snapshots = MapSet(@, key, snapshot),
                  !.persisted = MapSet(@, key, snapshot)]
           /\ prior' = [prior EXCEPT ![key] = <<snapshot.quickSuggestions>>]
           /\ \E accepted \in BOOLEAN :
                 /\ ~accepted => gate.failures < MaxFailures
                 /\ memento' = IF accepted THEN savePersisted(controller'.persisted)
                               ELSE memento
                 /\ op' = [Called("disableFor", key) EXCEPT
                             !.pc = IF accepted THEN "saving" ELSE "rejected",
                             !.mementoWrites = 1]
    /\ UNCHANGED <<configuration, startup>>
    /\ GateFrame

\* part_000 lines 50-52: the save has completed, the key is disabled and
\* the update is issued
GateDisableUpdate ==
    /\ entry = "activate"
    /\ op.name = "disableFor" /\ op.pc = "saving"
    /\ controller' = [controller EXCEPT !.state = MapSet(@, op.key, "disabled")]
    /\ op' = [op EXCEPT !.pc = "updating"]
    /\ UNCHANGED <<memento, configuration, prior, gate, startup>>
    /\ GateFrame

\* part_000 line 52: the update to false completes, disableFor returns and
\* the task settles
GateDisableReturn ==
    /\ entry = "activate"
    /\ op.name = "disableFor" /\ op.pc = "updating"
    /\ configuration' = ConfigUpdate(configuration,
                            getTargetContext(DocumentOf(op.key)).target, "false")
    /\ op' = [op EXCEPT !.pc = "returned", !.configWrites = @ + 1]
    /\ UNCHANGED <<controller, memento, prior, gate, startup>>
    /\ GateFrame

\* part_001 lines 57-59 and part_000 lines 56-60: the task restores and the
\* key is not disabled
GateRestoreNotDisabled ==
    /\ TaskReady
    /\ gate.inflight = "fulfilled"
    /\ LET task == Head(gate.queue)
           key == getTargetContext(task.document).key
       IN  /\ ~task.shouldDisable /\ gate.inDisabledZone
           /\ ~IsDisabled(controller, key)
           /\ gate' = [Taken(gate) EXCEPT !.inDisabledZone = FALSE]
           /\ op' = Called("restore", key)
    /\ UNCHANGED <<controller, memento, configuration, prior, startup>>
    /\ GateFrame

\* part_001 lines 57-59 and part_000 lines 56-65: the task restores a
\* disabled key; the update to the snapshot's value is issued
GateRestoreIssue ==
    /\ TaskReady
    /\ gate.inflight = "fulfilled"
    /\ LET task == Head(gate.queue)
           key == getTargetContext(task.document).key
       IN  /\ ~task.shouldDisable /\ gate.inDisabledZone
           /\ IsDisabled(controller, key)
           /\ gate' = [Taken(gate) EXCEPT !.inDisabledZone = FALSE]
           /\ IF MapHas(controller.snapshots, key)
              THEN /\ op' = [Called("restore", key) EXCEPT !.pc = "updating"]
                   /\ UNCHANGED controller
              ELSE /\ op' = Called("restore", key)
                   /\ controller' = [controller EXCEPT
                          !.state = MapSet(@, key, "enabled"),
                          !.snapshots = MapDelete(@, key)]
    /\ UNCHANGED <<memento, configuration, prior, startup>>
    /\ GateFrame

\* part_000 lines 65-67: the update completes, the persisted snapshot is
\* deleted and the save issued, which the memento accepts or rejects
GateRestoreSave ==
    /\ entry = "activate"
    /\ op.name = "restore" /\ op.pc = "updating"
    /\ configuration' = ConfigUpdate(configuration,
                            getTargetContext(DocumentOf(op.key)).target,
                            MapGet(controller.snapshots, op.key).quickSuggestions)
    /\ controller' = [controller EXCEPT !.persisted = MapDelete(@, op.key)]
    /\ \E accepted \in BOOLEAN :
          /\ ~accepted => gate.failures < MaxFailures
          /\ memento' = IF accepted THEN savePersisted(controller'.persisted) ELSE memento
          /\ op' = [op EXCEPT !.pc = IF accepted THEN "saving" ELSE "rejected",
                              !.configWrites = @ + 1, !.mementoWrites = @ + 1]
    /\ UNCHANGED <<prior, gate, startup>>
    /\ GateFrame

\* part_000 lines 70-71: the save has completed, the key is enabled, its
\* snapshot dropped, and the task settles
GateRestoreReturn ==
    /\ entry = "activate"
    /\ op.name = "restore" /\ op.pc = "saving"
    /\ controller' = [controller EXCEPT
           !.state = MapSet(@, op.key, "enabled"),
           !.snapshots = MapDelete(@, op.key)]
    /\ op' = [op EXCEPT !.pc = "returned"]
    /\ UNCHANGED <<memento, configuration, prior, gate, startup>>
    /\ GateFrame

\* part_001 lines 53-60: a task for which neither branch applies, or whose
\* callback the chain does not call because the promise before it rejected
GateNothing ==
    /\ TaskReady
    /\ LET task == Head(gate.queue)
       IN  IF gate.inflight = "rejected"
           THEN gate' = [gate EXCEPT !.queue = Tail(@), !.skipped = @ + 1]
           ELSE /\ ~(task.shouldDisable /\ ~gate.inDisabledZone)
                /\ ~(~task.shouldDisable /\ gate.inDisabledZone)
                /\ gate' = Taken(gate)
    /\ UNCHANGED <<controller, memento, configuration, op, prior, startup>>
    /\ GateFrame

\* applySettings without the catch of lines 61-63: a rejection leaves the
\* chain rejected
Caught_NoCatch(g) ==
    [g EXCEPT !.failures = @ + 1, !.failedAt = g.ran, !.inflight = "rejected"]

\* part_001 lines 61-63: the catch swallows the rejection of a task, and
\* the chain goes on fulfilled
Caught(g) ==
    [g EXCEPT !.failures = @ + 1, !.failedAt = g.ran, !.inflight = "fulfilled"]

\* part_000 lines 49 and 67: the save of the memento was rejected; the
\* operation throws and the task settles
GateSaveRejected ==
    /\ entry = "activate"
    /\ op.pc = "rejected"
    /\ gate' = Caught(gate)
    /\ op' = [op EXCEPT !.pc = "returned"]
    /\ UNCHANGED <<controller, memento, configuration, prior, startup>>
    /\ GateFrame

\* part_000 lines 52 and 65: the update of the configuration is rejected;
\* the operation throws and the task settles
GateUpdateRejected ==
    /\ entry = "activate"
    /\ op.pc = "updating"
    /\ gate.failures < MaxFailures
    /\ gate' = Caught(gate)
    /\ op' = [op EXCEPT !.pc = "returned"]
    /\ UNCHANGED <<controller, memento, configuration, prior, startup>>
    /\ GateFrame

GateNext ==
    \/ Activate
    \/ RestorePersistedNext
    \/ RestorePersistedClear
    \/ RestorePersistedDefaults
    \/ EnsureDefaultsUpdated
    \/ SelectionChanged
    \/ DocumentChanged
    \/ ActiveEditorChanged
    \/ GateDisableDisabled
    \/ GateDisableSnapshot
    \/ GateDisableUpdate
    \/ GateDisableReturn
    \/ GateRestoreNotDisabled
    \/ GateRestoreIssue
    \/ GateRestoreSave
    \/ GateRestoreReturn
    \/ GateNothing
    \/ GateSaveRejected
    \/ GateUpdateRejected

SpecGate == GateInit /\ [][GateNext]_vars

(***************************************************************************)
(* Sequential calls of every operation of the controller: restorePersisted *)
(* as the first call (its steps are those above), then disableFor, restore *)
(* and restoreAll, each call after the previous one has returned.          *)
(***************************************************************************)
\* lines 26-29: restorePersisted is called and runs up to its first await
SettingsRestorePersisted ==
    /\ Idle
    /\ op.name = ""
    /\ startup.pc = "none"
    /\ IF controller.persisted # <<>>
       THEN /\ startup' = [startup EXCEPT !.pc = "restoring", !.leftovers = memento,
                                          !.cur = controller.persisted[1], !.next = 2]
            /\ UNCHANGED memento
       ELSE /\ startup' = [startup EXCEPT !.pc = "saving", !.leftovers = memento]
            /\ memento' = savePersisted(controller.persisted)
    /\ op' = Called("restorePersisted", "")
    /\ UNCHANGED <<controller, configuration, prior, gate>>
    /\ GateFrame

\* lines 74-79: restoreAll empties snapshots and state and issues the update
\* of every snapshot it held
RestoreAllIssue ==
    /\ Idle
    /\ op' = [Called("restoreAll", "") EXCEPT
                !.entries = controller.snapshots,
                !.pc = IF controller.snapshots = <<>> THEN "returned" ELSE "updating"]
    /\ controller' = [controller EXCEPT !.snapshots = <<>>, !.state = <<>>]
    /\ UNCHANGED <<memento, configuration, prior>>
    /\ SettingsFrame

\* lines 79 and 82-85: one of the updates completes; restoreAll returns when
\* all have
RestoreAllUpdated ==
    /\ entry = "SuggestionSettingsController"
    /\ op.name = "restoreAll" /\ op.pc = "updating"
    /\ \E n \in 1..Len(op.entries) :
          /\ configuration' = ConfigUpdate(configuration,
                                  getContextByKey(op.entries[n][1]).target,
                                  op.entries[n][2].quickSuggestions)
          /\ op' = [op EXCEPT
                      !.entries = SubSeq(@, 1, n - 1) \o SubSeq(@, n + 1, Len(@)),
                      !.configWrites = @ + 1,
                      !.pc = IF Len(op.entries) = 1 THEN "returned" ELSE "updating"]
    /\ UNCHANGED <<controller, memento, prior>>
    /\ SettingsFrame

SettingsNext ==
    \/ SettingsRestorePersisted
    \/ RestorePersistedNext
    \/ RestorePersistedClear
    \/ RestorePersistedDefaults
    \/ EnsureDefaultsUpdated
    \/ DisableForDisabled
    \/ DisableForSnapshot
    \/ DisableForUpdate
    \/ DisableForReturn
    \/ RestoreNotDisabled
    \/ RestoreIssue
    \/ RestoreSave
    \/ RestoreReturn
    \/ RestoreAllIssue
    \/ RestoreAllUpdated

SpecSettings == SettingsInit /\ [][SettingsNext]_vars

(***************************************************************************)
(* isInHtmlTextContent (extension.ts 401-470): the scanner of the legacy   *)
(* extension for HTML, XML and SVG, one loop iteration per step.           *)
(***************************************************************************)
\* /[A-Za-z\/!?]/
IsHtmlTagOpener(c) == c \in Letter \cup {"/", "!", "?"}

\* /[A-Za-z0-9_\-\s="']/
IsHtmlTagBodyChar(c) == c \in Letter \cup Digit \cup {"_", "-", "=", "\"", "'"} \/ IsSpace(c)

\* lines 402-406
HtmlScanInit ==
    [ i |-> 0, inTag |-> FALSE, inString |-> FALSE, stringChar |-> "",
      tagDepth |-> 0, lastTagClose |-> -1 ]

\* lines 441-444: the index the look-back from j stops at
RECURSIVE HtmlLookBack(_, _)
HtmlLookBack(t, j) ==
    IF j >= 0 /\ IsHtmlTagBodyChar(CharAt(t, j)) THEN HtmlLookBack(t, j - 1) ELSE j

\* the branch of the loop body that character i takes
HtmlBranch(t, s) ==
    LET char == CharAt(t, s.i)
        prevChar == IF s.i > 0 THEN CharAt(t, s.i - 1) ELSE ""
        nextChar == CharAt(t, s.i + 1)
    IN  IF s.inTag /\ ~s.inString /\ char \in {"\"", "'"} THEN "stringOpen"
        ELSE IF s.inString /\ char = s.stringChar /\ prevChar # "\\" THEN "stringClose"
        ELSE IF s.inString THEN "inString"
        ELSE IF char = "<" /\ IsHtmlTagOpener(nextChar) THEN "tagStart"
        ELSE IF char = ">" /\ s.inTag THEN "tagEnd"
        ELSE "other"

\* lines 432-455: a > ends the tag
HtmlOnTagEnd(t, s) ==
    LET i == s.i
        prevChar == IF i > 0 THEN CharAt(t, i - 1) ELSE ""
        j == HtmlLookBack(t, i - 1)
        ended == [s EXCEPT !.inTag = FALSE, !.lastTagClose = i]
    IN  IF prevChar = "/" THEN ended
        ELSE IF j >= 0 /\ CharAt(t, j) = "/" THEN [ended EXCEPT !.tagDepth = @ - 1]
        ELSE IF j >= 0 /\ CharAt(t, j) = "<" THEN [ended EXCEPT !.tagDepth = @ + 1]
        ELSE ended

\* lines 408-457: one iteration of the loop
HtmlScanStep(t, s) ==
    LET br == HtmlBranch(t, s)
        after ==
            CASE br = "stringOpen" ->
                   [s EXCEPT !.inString = TRUE, !.stringChar = CharAt(t, s.i)]
              [] br = "stringClose" -> [s EXCEPT !.inString = FALSE]
              [] br = "tagStart" -> [s EXCEPT !.inTag = TRUE]
              [] br = "tagEnd" -> HtmlOnTagEnd(t, s)
              [] OTHER -> s
    IN  [after EXCEPT !.i = s.i + 1]

\* lines 464-468
HtmlVerdict(s) == ~s.inTag /\ (s.tagDepth > 0 \/ s.lastTagClose >= 0)

RECURSIVE HtmlScanLoop(_, _, _)
HtmlScanLoop(t, off, s) ==
    IF s.i < off THEN HtmlScanLoop(t, off, HtmlScanStep(t, s)) ELSE s

\* lines 401-470
isInHtmlTextContent(t, off) == HtmlVerdict(HtmlScanLoop(t, off, HtmlScanInit))

\* ---- an element that holds a complete comment: <d><!-- X -->T</d>
\* the longest content X of the comment
MaxComment == 2

CommentChars == { <<"a">>, <<"'">>, <<"\"">>, <<">">>, <<"<">> }

HtmlComments ==
    { <<"<","!","-","-"," ">> \o x \o <<" ","-","-",">">> :
        x \in Concats(CommentChars, MaxComment) }

\* an element with an attribute value, for the strings the scanner is made for
HtmlOpenTags == { <<"<","d",">">>, <<"<","d"," ","a","=","\"","\\","\"","\"",">">> }

CommentDocs ==
    { << Piece("mtag", "markup", o), Piece("comment", "markup", c) >>
      \o (IF x = <<>> THEN <<>> ELSE << Piece("ctext", "markup", x) >>)
      \o << Piece("mtag", "markup", <<"<","/","d",">">>) >> :
        o \in HtmlOpenTags, c \in HtmlComments, x \in { <<>>, <<"a">> } }

\* a call isInHtmlTextContent(text, o)
StartHtml(doc, o) ==
    /\ entry = "isInHtmlTextContent"
    /\ languageId = "html"
    /\ fam = "comment"
    /\ text = Flatten(doc)
    /\ offset = o
    /\ zone = MarkupZoneAt(doc, o)
    /\ sourceFile = <<>>
    /\ parsed = FALSE
    /\ scan = HtmlScanInit
    /\ pc = "scan"
    /\ result = FALSE
    /\ NoDetector
    /\ NoController

HtmlInit == \E doc \in CommentDocs : \E o \in AllOffsets(doc) : StartHtml(doc, o)

\* the loop of isInHtmlTextContent is at character scan.i, which takes branch br
AtHtmlBranch(br) ==
    /\ entry = "isInHtmlTextContent"
    /\ pc = "scan"
    /\ scan.i < offset
    /\ HtmlBranch(text, scan) = br

\* lines 414-418: a quote in a tag opens string mode
HtmlStringOpen ==
    /\ AtHtmlBranch("stringOpen")
    /\ scan' = HtmlScanStep(text, scan)
    /\ UNCHANGED <<settingsVars, detectorVars, probe, parsed, pc, result>>

\* lines 419-422: the same quote, not after a backslash, closes string mode
HtmlStringClose ==
    /\ AtHtmlBranch("stringClose")
    /\ scan' = HtmlScanStep(text, scan)
    /\ UNCHANGED <<settingsVars, detectorVars, probe, parsed, pc, result>>

\* lines 423-425: a character of a string
HtmlInString ==
    /\ AtHtmlBranch("inString")
    /\ scan' = HtmlScanStep(text, scan)
    /\ UNCHANGED <<settingsVars, detectorVars, probe, parsed, pc, result>>

\* lines 428-436: a < before a letter, /, ! or ? starts a tag
HtmlTagStart ==
    /\ AtHtmlBranch("tagStart")
    /\ scan' = HtmlScanStep(text, scan)
    /\ UNCHANGED <<settingsVars, detectorVars, probe, parsed, pc, result>>

\* lines 439-462: a > in a tag ends it
HtmlTagEnd ==
    /\ AtHtmlBranch("tagEnd")
    /\ scan' = HtmlScanStep(text, scan)
    /\ UNCHANGED <<settingsVars, detectorVars, probe, parsed, pc, result>>

\* any other character
HtmlOther ==
    /\ AtHtmlBranch("other")
    /\ scan' = HtmlScanStep(text, scan)
    /\ UNCHANGED <<settingsVars, detectorVars, probe, parsed, pc, result>>

\* lines 464-468: the loop ends and the verdict is read off the scan state
HtmlReturn ==
    /\ entry = "isInHtmlTextContent"
    /\ pc = "scan"
    /\ scan.i >= offset
    /\ result' = HtmlVerdict(scan)
    /\ pc' = "done"
    /\ UNCHANGED <<settingsVars, detectorVars, probe, parsed, scan>>

HtmlNext ==
    \/ HtmlStringOpen
    \/ HtmlStringClose
    \/ HtmlInString
    \/ HtmlTagStart
    \/ HtmlTagEnd
    \/ HtmlOther
    \/ HtmlReturn

SpecHtml == HtmlInit /\ [][HtmlNext]_vars

(***************************************************************************)
(* The handlers of the legacy extension (extension.ts 23-125, 472-512).    *)
(* A step runs a handler up to its return; a config.update that a handler  *)
(* issues completes in a later step, in the order of issue, and the code   *)
(* after its await runs then.                                              *)
(***************************************************************************)
\* lines 4-13
SUPPORTED_LANGUAGES ==
    { "javascriptreact", "typescriptreact", "javascript", "typescript",
      "html", "xml", "xhtml", "svg" }

\* lines 127-129
isSupportedLanguage(lang) == lang \in SUPPORTED_LANGUAGES

\* the editors of the window: one of a supported document, one of an
\* unsupported document
LegacyEditors == {"a.tsx", "d.txt"}

\* the most events the window delivers
MaxLegacyEvents == 3

\* lines 476-489: the update is issued; it completes later
disableQuickSuggestions(l) ==
    [l EXCEPT !.updates = Append(@, [value |-> "object", cleanup |-> FALSE])]

\* lines 495-504
enableQuickSuggestions(l) ==
    [l EXCEPT !.updates = Append(@, [value |-> "undefined", cleanup |-> FALSE])]

\* lines 509-512: lastState = null runs when the update has completed
cleanupSettings(l) ==
    [l EXCEPT !.updates = Append(@, [value |-> "undefined", cleanup |-> TRUE])]

\* lines 105-125; l.between is what checkIfBetweenTags returns for the
\* supported document at the cursor its editor has now
handleSelectionChange(l, editor) ==
    LET isBetweenTags == l.between
    IN  IF ~isSupportedLanguage(LanguageOf(editor)) THEN l
        ELSE IF l.lastState # <<isBetweenTags>>
        THEN [ (IF isBetweenTags THEN disableQuickSuggestions(l)
                ELSE enableQuickSuggestions(l))
                 EXCEPT !.lastState = <<isBetweenTags>> ]
        ELSE l

\* lines 75-91 of the legacy extension; editor is <<>> for undefined
LegacyHandleEditorChange(l, editor) ==
    IF editor = <<>> \/ ~isSupportedLanguage(LanguageOf(editor[1]))
    THEN IF l.lastState # <<>>
         THEN [cleanupSettings(l) EXCEPT !.lastState = <<>>]
         ELSE l
    ELSE handleSelectionChange(l, editor[1])

\* lines 93-103
handleDocumentClose(l, document) ==
    IF /\ isSupportedLanguage(LanguageOf(document))
       /\ \/ l.activeTextEditor = <<>>
          \/ ~isSupportedLanguage(LanguageOf(l.activeTextEditor[1]))
    THEN [cleanupSettings(l) EXCEPT !.lastState = <<>>]
    ELSE l

\* the run of calls of handleSelectionChange for a supported document with
\* one verdict, after the call for editor took l to m: the verdict and the
\* updates issued in the run
RunAfter(l, m, editor) ==
    LET issued == Len(m.updates) - Len(l.updates)
    IN  IF ~isSupportedLanguage(LanguageOf(editor)) THEN l.run
        ELSE IF l.run # <<>> /\ l.run[1].verdict = l.between
        THEN << [l.run[1] EXCEPT !.issued = @ + issued] >>
        ELSE << [verdict |-> l.between, issued |-> issued] >>

\* the extension is loaded in a window; the workspace setting may be left
\* over from an earlier session
LegacyInit ==
    /\ entry = "legacy"
    /\ languageId = ""
    /\ text = <<>>
    /\ offset = 0
    /\ fam = "legacy"
    /\ zone = ""
    /\ sourceFile = <<>>
    /\ parsed = FALSE
    /\ scan = ScanInit
    /\ pc = "idle"
    /\ result = FALSE
    /\ NoDetector
    /\ gate = [ inDisabledZone |-> FALSE, queue |-> <<>>, inflight |-> "fulfilled",
                active |-> <<>>, last |-> "", events |-> 0, scheduled |-> 0,
                ran |-> 0, skipped |-> 0, failures |-> 0, failedAt |-> 0 ]
    /\ startup = [ pc |-> "none", cur |-> <<>>, next |-> 0, key |-> 0,
                   leftovers |-> <<>> ]
    /\ controller = [snapshots |-> <<>>, state |-> <<>>, persisted |-> <<>>]
    /\ memento = <<>>
    /\ op = [name |-> "", key |-> "", pc |-> "returned",
             configWrites |-> 0, mementoWrites |-> 0, entries |-> <<>>]
    /\ prior = <<>>
    /\ configuration \in { c \in [Scopes -> {"true", "undefined", "object"}] :
                             /\ c["user"] = "true"
                             /\ c[Folder] = "undefined"
                             /\ c["workspace"] \in {"undefined", "object"} }
    /\ \E editor \in { <<>> } \cup { <<e>> : e \in LegacyEditors } : \E b \in BOOLEAN :
          legacy = [NoLegacy EXCEPT !.pc = "new", !.activeTextEditor = editor,
                                    !.between = b]

LegacyFrame ==
    UNCHANGED <<entry, languageId, text, offset, fam, zone, sourceFile, parsed, scan,
                pc, result, detectorVars, controller, memento, op, prior, gate, startup>>

\* lines 26-54: activate
LegacyActivate ==
    /\ entry = "legacy"
    /\ legacy.pc = "new"
    /\ LET cleaned == cleanupSettings(legacy)
           handled == IF legacy.activeTextEditor # <<>>
                      THEN handleSelectionChange(cleaned, legacy.activeTextEditor[1])
                      ELSE cleaned
       IN  legacy' = [handled EXCEPT
                        !.pc = "active",
                        !.run = IF legacy.activeTextEditor # <<>>
                                THEN RunAfter(cleaned, handled, legacy.activeTextEditor[1])
                                ELSE <<>>]
    /\ UNCHANGED configuration
    /\ LegacyFrame

\* the selection of a visible editor changes: the debounced handler
\* (lines 62-73) clears the timer and sets it anew
LegacySelectionChanged ==
    /\ entry = "legacy"
    /\ legacy.pc = "active"
    /\ legacy.events < MaxLegacyEvents
    /\ \E editor \in LegacyEditors : \E b \in BOOLEAN :
          /\ isSupportedLanguage(LanguageOf(editor)) \/ b = legacy.between
          /\ legacy' = [legacy EXCEPT !.timeout = <<editor>>, !.between = b,
                                      !.events = @ + 1, !.away = FALSE]
    /\ UNCHANGED configuration
    /\ LegacyFrame

\* line 71: the timer fires and handleSelectionChange runs for the event
LegacyTimeout ==
    /\ entry = "legacy"
    /\ legacy.timeout # <<>>
    /\ LET handled == handleSelectionChange(legacy, legacy.timeout[1])
       IN  legacy' = [handled EXCEPT !.timeout = <<>>,
                                     !.run = RunAfter(legacy, handled, legacy.timeout[1])]
    /\ UNCHANGED configuration
    /\ LegacyFrame

\* lines 75-91: the active editor changes
LegacyActiveEditorChanged ==
    /\ entry = "legacy"
    /\ legacy.pc = "active"
    /\ legacy.events < MaxLegacyEvents
    /\ \E editor \in ({ <<>> } \cup { <<e>> : e \in LegacyEditors }) \ {legacy.activeTextEditor} :
          LET switched == [legacy EXCEPT !.activeTextEditor = editor]
              handled == LegacyHandleEditorChange(switched, editor)
              leaves == editor = <<>> \/ ~isSupportedLanguage(LanguageOf(editor[1]))
          IN  legacy' = [handled EXCEPT
                           !.events = @ + 1,
                           !.away = leaves,
                           !.run = IF leaves
                                   THEN (IF legacy.lastState # <<>> THEN <<>> ELSE @)
                                   ELSE RunAfter(switched, handled, editor[1])]
    /\ UNCHANGED configuration
    /\ LegacyFrame

\* lines 93-103: a document that is not the active editor's is closed
LegacyDocumentClosed ==
    /\ entry = "legacy"
    /\ legacy.pc = "active"
    /\ legacy.events < MaxLegacyEvents
    /\ \E document \in LegacyEditors :
          /\ legacy.activeTextEditor # <<document>>
          /\ LET handled == handleDocumentClose(legacy, document)
             IN  legacy' = [handled EXCEPT
                              !.events = @ + 1,
                              !.away = FALSE,
                              !.run = IF handled # legacy THEN <<>> ELSE @]
    /\ UNCHANGED configuration
    /\ LegacyFrame

\* a config.update completes: the workspace setting takes the value, and
\* cleanupSettings goes on to line 511
LegacyUpdateCompleted ==
    /\ entry = "legacy"
    /\ legacy.updates # <<>>
    /\ configuration' = ConfigUpdate(configuration, "workspace", Head(legacy.updates).value)
    /\ legacy' = [legacy EXCEPT
                    !.updates = Tail(@),
                    !.lastState = IF Head(legacy.updates).cleanup THEN <<>> ELSE @]
    /\ LegacyFrame

LegacyNext ==
    \/ LegacyActivate
    \/ LegacySelectionChanged
    \/ LegacyTimeout
    \/ LegacyActiveEditorChanged
    \/ LegacyDocumentClosed
    \/ LegacyUpdateCompleted

SpecLegacy == LegacyInit /\ [][LegacyNext]_vars

(***************************************************************************)
(* Claims about isInJsxTextContent.                                        *)
(***************************************************************************)
Returned(f) == pc = "done" /\ entry = "isInJsxTextContent" /\ fam = f

\* C1: in a well-formed root element <d ...>CONTENT</d>, every offset from
\* just after the opening tag's > up to just before the closing tag's <
\* that is not strictly inside a nested tag or a {...} expression
\* classifies true, whatever text, nested elements and expressions CONTENT
\* holds.
C1_ContentClassifiesTrue ==
    (Returned("element") /\ zone = "content") => result = TRUE

\* C2: every offset strictly after the < of a recognised opening or
\* self-closing tag and at or before its terminating > classifies false,
\* whatever the attribute values and attribute expressions contain.
C2_TagClassifiesFalse ==
    (Returned("element") /\ zone = "tag") => result = FALSE

\* C3: every offset strictly inside the closing tag </d> classifies false,
\* whatever character CONTENT ends with.
C3_ClosingTagClassifiesFalse ==
    (Returned("element") /\ zone = "closing") => result = FALSE

\* C4: once a well-formed root element has been scanned completely, the
\* tag-nesting depth is 0 and markup-content mode is off, so every offset
\* after its final > classifies false, whatever CONTENT was.
C4_AfterRootElementFalse ==
    (Returned("element") /\ zone = "after") =>
        /\ scan.jsxTagDepth = 0
        /\ ~scan.inJsxContent
        /\ result = FALSE

\* C5: every offset strictly between the { and the matching } of an
\* expression in element content classifies false, whatever the expression
\* holds and whatever text content precedes it.
C5_ExpressionClassifiesFalse ==
    (Returned("element") /\ zone = "expr") => result = FALSE

\* C6: in code without markup, where every < and > is a comparison or
\* delimits a generic type-argument or type-parameter list, every offset
\* classifies false.
C6_NoMarkupClassifiesFalse ==
    (Returned("nomarkup") /\ offset >= 0 /\ offset <= Len(text)) => result = FALSE

\* C7: an element <div>X</div> written after a JSX-permitting predecessor
\* (return, =>, =, (, a comma, :, ?, &&, ||, ! or the start of the text),
\* with optional whitespace between, is recognised as markup: every offset
\* of its text content X classifies true.
C7_ElementAfterPredecessor ==
    (Returned("predecessor") /\ zone = "content") => result = TRUE

\* a verdict inside the X of return <div>X</div>
C7_Witness ==
    /\ Returned("predecessor")
    /\ zone = "content"
    /\ SubSeq(text, 1, 6) = <<"r","e","t","u","r","n">>
    /\ scan.jsxTagDepth = 1
    /\ offset >= 13
    /\ result = TRUE

\* the text <div>X</div> for a text <>X</>
DivTwin(t) == DivOpen \o SubSeq(t, Len(FragOpen) + 1, Len(t) - Len(FragClose)) \o DivClose

\* C8: for every content string X and every offset of the content, the
\* verdict for <>X</> at that offset equals the verdict for <div>X</div>
\* at the corresponding offset.
C8_FragmentParity ==
    (Returned("fragment") /\ zone = "content") =>
        result = isInJsxTextContent(DivTwin(text), offset + (Len(DivOpen) - Len(FragOpen)))

\* a verdict inside a nested tag of the content of a fragment, false in
\* the fragment as in the div
C8_Witness ==
    /\ Returned("fragment")
    /\ zone = "content"
    /\ offset = Len(text) - Len(FragClose)
    /\ scan.inJsxTag
    /\ result = FALSE


\* C9: for every text, every classifier (isInJsxTextContent,
\* isJsxTextContext for a code dialect, isMarkupTextContext through
\* isJsxTextContext for a markup dialect) returns false when offset < 0 or
\* offset > length(text).
C9_OutOfRangeFalse ==
    (pc = "done" /\ (offset < 0 \/ offset > Len(text))) => result = FALSE

\* C10: isJsxTextContext returns false for every probe whose languageId is
\* in neither the code-with-markup set nor the markup-only set, for every
\* text and offset.
C10_UnsupportedLanguageFalse ==
    (/\ pc = "done"
     /\ entry = "isJsxTextContext"
     /\ languageId \notin JSX_LANGUAGES \cup MARKUP_LANGUAGES) => result = FALSE


(***************************************************************************)
(* Claims about the markup scanner.                                        *)
(***************************************************************************)
\* C12: in a markup document every offset strictly after the < of a tag and
\* at or before the > that ends the tag classifies false, in attribute
\* names, between attributes and inside quoted attribute values, whatever
\* characters the attribute values contain.
C12_MarkupTagFalse ==
    (pc = "done" /\ fam = "markup" /\ zone = "tag") => result = FALSE

\* C13: every offset strictly inside an HTML comment, after the start of
\* its <!-- and before the end of its -->, classifies false whatever the
\* comment holds; every offset after a completed comment, in the text up to
\* the next <, classifies true as text content.
C13_MarkupCommentFalse ==
    (pc = "done" /\ fam = "markup") =>
        /\ zone = "comment" => result = FALSE
        /\ zone = "afterComment" => result = TRUE

\* C14: every offset strictly after the > that ends a tag and at or before
\* the next < (or the end of the text if there is none) classifies true:
\* after a void or self-closing element, between sibling elements, and at
\* the end of the document after a tag.
C14_MarkupAfterTagTrue ==
    (pc = "done" /\ fam = "markup" /\ zone = "afterTag") => result = TRUE

(***************************************************************************)
(* Claims about JsxContextDetector.                                        *)
(***************************************************************************)
\* C11: a call of JsxContextDetector.isInsideJsxText for a document of an
\* unsupported language returns false, and a call for a markup document
\* returns the verdict of the markup scanner; neither call reads or changes
\* the cache, so an entry stored by an earlier call for a code document is
\* unchanged afterwards.
C11_OtherLanguagesBypassCache ==
    [][ (pc' = "done" /\ languageId' \notin JSX_LANGUAGES) =>
          /\ detector' = detector
          /\ result' = IF languageId' \in MARKUP_LANGUAGES
                       THEN isMarkupTextContext(text', offset')
                       ELSE FALSE ]_vars

\* a call for the markup document has returned true while the cache holds
\* the entry of a code document
C11_Witness ==
    /\ pc = "done"
    /\ languageId = "html"
    /\ result = TRUE
    /\ detector.cache # <<>>
    /\ detector.cache[1].uri = "a.tsx"

\* the step is a call of isInsideJsxText for a code document
CodeCall == pc' = "done" /\ languageId' \in JSX_LANGUAGES

\* before the call that has just returned, an entry was stored whose uri,
\* version and position are those of the call, the time to live is not 0 and
\* the entry is younger than the time to live
StoredEntryServes ==
    /\ detector.cache # <<>>
    /\ detector.cache[1].uri = call'[1].uri
    /\ detector.cache[1].version = call'[1].version
    /\ detector.cache[1].position = call'[1].position
    /\ detector.cacheTtlMs # 0
    /\ now - detector.cache[1].timestamp < detector.cacheTtlMs

\* C15: a call for a code document returns the stored verdict without
\* calling the classifier exactly when an entry is stored whose uri, version
\* and position equal those of the call, the time to live is not 0 and
\* clock() - entry.timestamp < time to live; in every other case the
\* classifier is called.
C15_CacheHitExactly ==
    [][ CodeCall =>
          /\ StoredEntryServes => (~call'[1].classified /\ result' = detector.cache[1].result)
          /\ ~StoredEntryServes => call'[1].classified ]_vars

\* a call for a code document was served from the cache, after the clock
\* had moved
C15_Witness ==
    /\ pc = "done"
    /\ languageId \in JSX_LANGUAGES
    /\ ~call[1].classified
    /\ result = TRUE
    /\ detector.cache[1].timestamp < now

\* C16: the detector holds at most one entry; a call for a code document
\* that misses (other uri, other version, other position, or an entry of age
\* >= time to live) calls the classifier and replaces the entry as a whole
\* by the uri, version and position of this call, the value of clock() at
\* this call and the fresh verdict, so a call for another document
\* overwrites the entry of the previous document.
C16_MissReplacesEntry ==
    /\ [] (Len(detector.cache) <= 1)
    /\ [][ (CodeCall /\ ~StoredEntryServes) =>
             /\ call'[1].classified
             /\ result' = Classify[call'[1].uri, call'[1].version, call'[1].position]
             /\ detector'.cache =
                  << [ uri |-> call'[1].uri, version |-> call'[1].version,
                       position |-> call'[1].position, timestamp |-> now',
                       result |-> result' ] >> ]_vars

\* the second document was classified at a later time than the first: its
\* entry has replaced the first document's
C16_Witness ==
    /\ pc = "done"
    /\ call[1].classified
    /\ call[1].uri = "b.ts"
    /\ detector.cache[1].uri = "b.ts"
    /\ detector.cache[1].timestamp = 500
    /\ documents["a.tsx"] = 2

\* C17: the time to live in effect is max(0, configured value), 500 when no
\* value is given; when it is 0 (configured 0 or negative) no call hits the
\* cache: every call for a code document calls the classifier, for any
\* sequence of calls and any clock values.
C17_TtlFloorAndZeroDisables ==
    /\ [] (pc \in {"idle", "done"} =>
             detector.cacheTtlMs =
                IF configuredTtl = <<>> THEN 500
                ELSE IF configuredTtl[1] > 0 THEN configuredTtl[1] ELSE 0)
    /\ [][ (CodeCall /\ detector.cacheTtlMs = 0) => call'[1].classified ]_vars

\* the detector was constructed with a negative value, its time to live is
\* 0 and a call for a code document was classified
C17_Witness ==
    /\ pc = "done"
    /\ configuredTtl = <<-1>>
    /\ detector.cacheTtlMs = 0
    /\ call[1].classified
    /\ result = TRUE
    /\ now = 0

\* C18: with the text and language of a document fixed by its uri and
\* version, every call of isInsideJsxText returns the verdict an uncached
\* classification of the document's current text at the position returns:
\* false for an unsupported language, the markup scanner's verdict for a
\* markup language, the syntax-tree classifier's for a code dialect; so two
\* calls with identical inputs return identical verdicts.
C18_CacheTransparent ==
    (pc = "done" /\ entry = "JsxContextDetector.isInsideJsxText") =>
        LET u == call[1].uri
            v == documents[u]
            t == Flatten(DocOf(u, v))
            o == offsetAt(t, call[1].position)
        IN  result = (/\ isSupported(LanguageOf(u))
                      /\ isJsxTextContext(LanguageOf(u), createSourceFile(DocOf(u, v)), t, o))

\* a call for the edited first document was served from the cache
C18_Witness ==
    /\ pc = "done"
    /\ call[1].uri = "a.tsx"
    /\ call[1].version = 2
    /\ ~call[1].classified
    /\ result = TRUE

\* C37: a cache hit leaves the stored entry as it is, its timestamp
\* included, so a verdict stored at clock time t is served only at clock
\* times strictly less than t + time to live, however many hits came before.
C37_HitKeepsEntry ==
    [][ (CodeCall /\ ~call'[1].classified) =>
          /\ detector' = detector
          /\ result' = detector.cache[1].result
          /\ now' < detector.cache[1].timestamp + detector.cacheTtlMs ]_vars

\* an entry stored at time 0 with the default time to live was served at
\* time 1
C37_Witness ==
    /\ pc = "done"
    /\ languageId \in JSX_LANGUAGES
    /\ ~call[1].classified
    /\ detector.cacheTtlMs = 500
    /\ detector.cache[1].timestamp = 0
    /\ now = 1

(***************************************************************************)
(* Claims about SuggestionSettingsController.                              *)
(***************************************************************************)
\* the step is a call of the controller operation name
CallOf(name) ==
    /\ entry = "SuggestionSettingsController"
    /\ op.pc = "returned"
    /\ op'.name = name

\* the key is in state 'disabled'
Disabled(key) == MapHas(controller.state, key) /\ MapGet(controller.state, key) = "disabled"

\* C19: in sequential calls, a disableFor for a key that a completed
\* disableFor has disabled writes neither the configuration nor the memento
\* and leaves the stored snapshot unchanged; a restore for a key that is not
\* in state 'disabled' (so also a second restore in a row) writes neither
\* the configuration nor the memento.
C19_ToggleIdempotent ==
    [][ /\ (CallOf("disableFor") /\ Disabled(op'.key)) =>
             /\ op'.pc = "returned"
             /\ op'.configWrites = 0 /\ op'.mementoWrites = 0
             /\ configuration' = configuration
             /\ memento' = memento
             /\ controller' = controller
        /\ (CallOf("restore") /\ ~Disabled(op'.key)) =>
             /\ op'.pc = "returned"
             /\ op'.configWrites = 0 /\ op'.mementoWrites = 0
             /\ configuration' = configuration
             /\ memento' = memento ]_vars

\* a disableFor has returned without a write for the folder, which is
\* disabled and whose snapshot holds the value captured before
C19_Witness ==
    /\ op.name = "disableFor"
    /\ op.key = Folder
    /\ op.pc = "returned"
    /\ op.configWrites = 0
    /\ Disabled(Folder)
    /\ configuration[Folder] = "false"
    /\ MapGet(controller.snapshots, Folder).quickSuggestions = "object"

\* C20: after one or more disableFor calls for a key followed by restore,
\* without failures and other writers, editor.quickSuggestions has the value
\* it had before the first disableFor (not a default, and false only if that
\* value was false), and the key has no snapshot in memory and none
\* persisted.
C20_SnapshotRoundTrip ==
    (/\ entry = "SuggestionSettingsController"
     /\ op.name = "restore"
     /\ op.pc = "returned"
     /\ op.configWrites > 0) =>
        /\ ConfigGet(configuration, DocumentOf(op.key)) = prior[op.key][1]
        /\ ~MapHas(controller.snapshots, op.key)
        /\ ~MapHas(controller.persisted, op.key)
        /\ ~MapHas(loadPersisted(memento), op.key)

\* the folder's setting was true while the workspace's was false; restore
\* has written true back for the folder
C20_Witness ==
    /\ op.name = "restore"
    /\ op.key = Folder
    /\ op.pc = "returned"
    /\ op.configWrites = 1
    /\ prior[Folder] = <<"true">>
    /\ configuration[Folder] = "true"
    /\ configuration["workspace"] = "false"

(***************************************************************************)
(* Further claims about isInJsxTextContent and the syntax-tree classifier. *)
(***************************************************************************)
\* C24: for every well-formed root element and every offset 0 <= offset <=
\* length(text), isInJsxTextContent returns the verdict that
\* isJsxTextContext returns for the same text as typescriptreact.
C24_StrategiesAgree ==
    (Returned("element") /\ offset >= 0 /\ offset <= Len(text)) =>
        result = isJsxTextContext("typescriptreact", sourceFile, text, offset)

\* the reference of C25 for the < at index i of t
TagStartReference(t, i) ==
    LET j == SkipSpaceBack(t, i - 1)
        next == CharAt(t, i + 1)
    IN  /\ next # ""
        /\ next \in Letter \cup {"/", ">"}
        /\ \/ j < 0
           \/ CharAt(t, j) \notin Letter \cup Digit \cup {"_", ")", "]"}
           \/ /\ j >= 5
              /\ SubSeq(t, j - 4, j + 1) = <<"r","e","t","u","r","n">>
              /\ (j >= 6 => CharAt(t, j - 6) \notin Letter \cup Digit \cup {"_"})

\* C25: for every text and every index i of a <, isLikelyTagStart is true
\* iff text[i+1] exists and is a letter, / or >, and either no
\* non-whitespace character precedes i, or the nearest one is not in
\* [A-Za-z0-9_)\]], or it is the final n of the whole word return.
C25_TagStartReference ==
    (pc = "scan" /\ CharAt(text, scan.i) = "<") =>
        isLikelyTagStart(text, scan.i) = TagStartReference(text, scan.i)

\* the scan stands at the < of xreturn<d, which is not a tag start, having
\* met the letters return after a word character
C25_Witness ==
    /\ pc = "scan"
    /\ fam = "tagstart"
    /\ text = <<"x","r","e","t","u","r","n","<","d">>
    /\ scan.i = 7
    /\ Branch(text, scan) # "tagStart"

\* C26: at every step of the scan of any text, malformed ones included,
\* the code-level brace depth, the markup-expression brace depth, the
\* tag-nesting depth and the template interpolation depth are >= 0, and a
\* text of closing delimiters only classifies false at every offset.
C26_CountersNonNegative ==
    entry = "isInJsxTextContent" =>
        /\ scan.braceDepth >= 0
        /\ scan.jsxBraceDepth >= 0
        /\ scan.jsxTagDepth >= 0
        /\ scan.templateDepth >= 0
        /\ (Returned("closers") /\ offset >= 0 /\ offset <= Len(text)) => result = FALSE

\* whether index n of t lies in a string literal when a quote outside a
\* string opens one and the first later occurrence of the same quote that
\* an odd number of backslashes does not precede closes it; r is the state
\* at index r.i
RECURSIVE StringReference(_, _, _)
StringReference(t, n, r) ==
    IF r.i >= n THEN r.inString
    ELSE LET char == CharAt(t, r.i)
             next == [r EXCEPT !.i = @ + 1, !.escaped = FALSE]
         IN  StringReference(t, n,
                 IF ~r.inString
                 THEN IF char \in {"\"", "'"}
                      THEN [next EXCEPT !.inString = TRUE, !.quote = char]
                      ELSE next
                 ELSE IF r.escaped THEN next
                 ELSE IF char = "\\" THEN [next EXCEPT !.escaped = TRUE]
                 ELSE IF char = r.quote THEN [next EXCEPT !.inString = FALSE]
                 ELSE next)

\* C27: string mode is left at the first later occurrence of the opening
\* quote that is not preceded by an odd number of consecutive backslashes,
\* and no character inside the string changes the tag, brace or content
\* state.
C27_StringModeEscapes ==
    (fam = "string" /\ pc = "scan") =>
        scan.inString =
            StringReference(text, scan.i,
                [i |-> 0, inString |-> FALSE, quote |-> "", escaped |-> FALSE])

\* C28: the characters between the opening backtick of a template literal
\* and the backtick that closes it, interpolations and nested template
\* literals included, leave the tag-nesting depth, the in-tag flag, the
\* markup-content flag and both brace counters as they were, so the
\* verdict inside and after the literal is that of the code before it.
C28_TemplateInert ==
    (Returned("template") /\ zone \in {"template", "code", "after"}) =>
        /\ scan.jsxTagDepth = 0
        /\ ~scan.inJsxTag
        /\ ~scan.inJsxContent
        /\ scan.braceDepth = 0
        /\ scan.jsxBraceDepth = 0
        /\ result = FALSE

\* the text is a fragment <>X</> whose X is plain text
PlainFragment ==
    /\ fam = "fragment"
    /\ \A n \in (Len(FragOpen) + 1)..(Len(text) - Len(FragClose)) : text[n] \in {"a", " "}

\* C29: a </> met outside strings, template literals, expressions and tags
\* takes the tag-nesting depth down by one and leaves markup-content mode
\* at depth 0, whatever precedes it: after a complete root-level fragment
\* <>X</> the depth is 0 and the offset after it classifies false.
C29_FragmentCloseLeavesMarkup ==
    (Returned("fragment") /\ PlainFragment /\ zone = "after") =>
        /\ scan.jsxTagDepth = 0
        /\ ~scan.inJsxContent
        /\ result = FALSE

\* the offset lies strictly inside the span of a tag or fragment delimiter
InsideDelimiterSpan ==
    \E n \in DOMAIN sourceFile :
        /\ sourceFile[n].kind \in { "JsxOpeningElement", "JsxSelfClosingElement",
                                    "JsxClosingElement", "JsxOpeningFragment",
                                    "JsxClosingFragment" }
        /\ offset > sourceFile[n].start
        /\ offset < sourceFile[n].end

\* C30: when neither the attribute-area check nor the embedded-expression
\* check applies and no ancestor is a text node, an offset strictly inside
\* the span of an opening, self-closing or closing tag yields false, also
\* for a tag nested in an element whose gap holds the offset.
C30_DelimiterSpanBeforeGap ==
    (/\ pc = "done"
     /\ entry = "isJsxTextContext"
     /\ languageId \in JSX_LANGUAGES
     /\ parsed
     /\ InsideDelimiterSpan
     /\ LET targetNode == findDeepestNode(sourceFile, 1, offset)
        IN  /\ targetNode # 0
            /\ ~isInsideJsxAttributeArea(sourceFile, text, targetNode, offset)
            /\ ~isInsideJsxExpressionContext(sourceFile, targetNode, offset)
            /\ sourceFile[targetNode].kind # "JsxText") => result = FALSE

\* the check of contextDetector.ts 272-288 alone: some ancestor of n, or n, is
\* an opening or self-closing tag whose attribute span or name span holds off
RECURSIVE InTagSpan(_, _, _)
InTagSpan(tree, n, off) ==
    IF n = 0 THEN FALSE
    ELSE IF /\ tree[n].kind \in {"JsxOpeningElement", "JsxSelfClosingElement"}
            /\ \/ off >= tree[n].attrPos /\ off <= tree[n].attrEnd
               \/ off > tree[n].start /\ off < tree[n].attrPos
         THEN TRUE
    ELSE InTagSpan(tree, tree[n].parent, off)

\* C31: isInsideJsxAttributeArea is true only if some ancestor of the deepest
\* node is an opening or self-closing tag whose attribute-list span or
\* tag-name span holds the offset; so an offset in a literal text node of an
\* element is never rejected by the attribute-area check, whatever < or >
\* characters come earlier in the file.
C31_AttributeAreaOnlyInTag ==
    (/\ pc = "done"
     /\ entry = "isJsxTextContext"
     /\ languageId \in JSX_LANGUAGES
     /\ parsed
     /\ findDeepestNode(sourceFile, 1, offset) # 0) =>
        LET targetNode == findDeepestNode(sourceFile, 1, offset)
            rejected == isInsideJsxAttributeArea(sourceFile, text, targetNode, offset)
        IN  /\ rejected => InTagSpan(sourceFile, targetNode, offset)
            /\ sourceFile[targetNode].kind = "JsxText" => ~rejected

(***************************************************************************)
(* Claims about the legacy extension (src/src/extension.ts).               *)
(***************************************************************************)
\* C38: in an element that holds a complete comment <!-- X -->, whatever
\* characters X holds, isInHtmlTextContent returns true at every offset of
\* the element's content after the comment (from just after its --> up to
\* the < of the closing tag) and false at every offset strictly inside the
\* comment.
C38_CommentIsOneTag ==
    (pc = "done" /\ entry = "isInHtmlTextContent") =>
        /\ zone = "afterComment" => result = TRUE
        /\ zone = "comment" => result = FALSE

\* C35: after the active editor changed to an editor of an unsupported
\* language or to no editor, once the debounce timer has fired and every
\* settings update has completed, the workspace editor.quickSuggestions
\* override is removed and lastState is null, whatever the order of the
\* debounced selection handler and the active-editor handler.
C35_CleanAfterSwitchingAway ==
    (/\ entry = "legacy"
     /\ legacy.away
     /\ legacy.timeout = <<>>
     /\ legacy.updates = <<>>) =>
        /\ configuration["workspace"] = "undefined"
        /\ legacy.lastState = <<>>

\* the step is the call of handleSelectionChange for the debounced event of
\* editor
TimerFired(editor) == legacy.timeout = <<editor>> /\ legacy'.timeout = <<>>

\* the step is the call of handleEditorChange for editor
SwitchedTo(editor) ==
    legacy'.activeTextEditor = <<editor>> /\ legacy.activeTextEditor # <<editor>>

\* C36: handleSelectionChange issues a settings update only when the verdict
\* differs from lastState; a run of calls for supported documents with one
\* verdict, no cleanup called in between, issues at most one update; a call
\* for an unsupported document issues none and leaves lastState unchanged.
C36_OneUpdatePerRun ==
    /\ [] (entry = "legacy" /\ legacy.run # <<>> => legacy.run[1].issued <= 1)
    /\ [][ (entry = "legacy" /\ legacy.pc = "active") =>
             /\ ((TimerFired("a.tsx") \/ SwitchedTo("a.tsx")) /\
                   legacy.lastState = <<legacy.between>>) =>
                   legacy'.updates = legacy.updates
             /\ TimerFired("d.txt") =>
                   (legacy'.updates = legacy.updates /\ legacy'.lastState = legacy.lastState)
          ]_vars

(***************************************************************************)
(* Claims about activate and SuggestionGate.                               *)
(***************************************************************************)
\* the value the previous session snapshotted for a key
LeftoverOf(key) == MapGet(MapOf(startup.leftovers), key).quickSuggestions

\* C21: on activation with leftover snapshots, no disableFor or restore of
\* the gate runs while restorePersisted is in progress; a snapshot stored
\* by a new disableFor is not erased by restorePersisted, from the
\* controller or from the memento; and the value a new disableFor
\* snapshots for a key with a leftover, which is the value restored in the
\* end, is the value the leftover holds.
C21_RestartRecoveryOrdering ==
    entry = "activate" =>
        /\ op.pc # "returned" => startup.pc = "done"
        /\ \A k \in Keys :
              (/\ IsDisabled(controller, k)
               /\ MapHas(controller.snapshots, k)
               /\ gate.failures = 0
               /\ ~(op.name = "restore" /\ op.pc # "returned")) =>
                  MapHas(controller.persisted, k) /\ MapHas(MapOf(memento), k)
        /\ \A k \in Keys :
              (prior[k] # <<>> /\ MapHas(MapOf(startup.leftovers), k)) =>
                  prior[k][1] = LeftoverOf(k)

\* C22: a rejection of disableFor or restore is caught in the chain: it
\* leaves the chain fulfilled and what the event handlers wrote untouched,
\* and every task taken off the chain has its callback run, in the order
\* of scheduling, also after a rejection.
C22_FailureContained ==
    /\ [](gate.inflight = "fulfilled" /\ gate.skipped = 0)
    /\ [][ /\ gate'.failures # gate.failures =>
                /\ gate'.queue = gate.queue
                /\ gate'.events = gate.events
                /\ gate'.last = gate.last
                /\ gate'.active = gate.active
           /\ gate'.ran # gate.ran =>
                /\ gate.queue # <<>>
                /\ gate'.ran = Head(gate.queue).n
                /\ gate'.ran = gate.ran + 1
           /\ Len(gate'.queue) < Len(gate.queue) => gate'.ran # gate.ran ]_vars

\* the update of a disableFor was rejected, and the restore scheduled after
\* it has run to its end and written the snapshot back
C22_Witness ==
    /\ entry = "activate"
    /\ gate.failures = 1
    /\ gate.ran > gate.failedAt
    /\ op.name = "restore"
    /\ op.pc = "returned"
    /\ op.configWrites = 1

\* nothing is queued or in progress
Quiescent == gate.queue = <<>> /\ op.pc = "returned" /\ startup.pc = "done"

\* C23: once all queued operations have completed without failure, if the
\* most recently handled event found the cursor outside text content, or
\* the active editor undefined, no key is in state 'disabled' and the
\* editor.quickSuggestions of every key that was disabled is the value
\* snapshotted for it.
C23_RestoredOutsideTextContent ==
    (/\ entry = "activate"
     /\ Quiescent
     /\ gate.failures = 0
     /\ gate.last \in {"outside", "undefined"}) =>
        \A k \in Keys :
            /\ ~IsDisabled(controller, k)
            /\ prior[k] # <<>> => ConfigGet(configuration, DocumentOf(k)) = prior[k][1]

\* C33: restorePersisted leaves editor.quickSuggestions of every key
\* without a persisted snapshot at activation as it is, whatever its value;
\* it writes only the keys with a persisted snapshot, each with the
\* snapshotted value.
C33_RestorePersistedFrame ==
    [][ (entry = "activate" /\ startup' # startup) =>
          \A k \in Keys :
             configuration'[k] # configuration[k] =>
                /\ MapHas(MapOf(startup.leftovers), k)
                /\ configuration'[k] = LeftoverOf(k) ]_vars

\* the keys of a Map
KeysOf(m) == { m[n][1] : n \in 1..Len(m) }

\* C32: once restorePersisted has completed, whenever no operation of the
\* controller is in progress, after any calls of disableFor, restore and
\* restoreAll, the keys of the persisted store are the keys with a snapshot
\* in memory and are the keys in state 'disabled'.
C32_BookkeepingAgrees ==
    (/\ entry = "SuggestionSettingsController"
     /\ startup.pc = "done"
     /\ op.pc = "returned") =>
        /\ KeysOf(controller.persisted) = KeysOf(controller.snapshots)
        /\ KeysOf(controller.snapshots) = { k \in Keys : Disabled(k) }

\* the step starts a call of disableFor or restore: part_001 lines 55 and 58
\* flip inDisabledZone just before the call
CallStarted == gate'.inDisabledZone # gate.inDisabledZone

\* C34: the disableFor and restore calls of the gate never overlap, each
\* starting only after the one before has settled; the tasks run in the order
\* their events were handled; and the calls alternate, starting with
\* disableFor: disableFor is called only when inDisabledZone is false,
\* restore only when it is true.
C34_GateSerialises ==
    [][ (entry = "activate" /\ gate'.ran # gate.ran) =>
          /\ gate'.ran = gate.ran + 1
          /\ op.pc = "returned"
          /\ ~CallStarted => op' = op
          /\ (CallStarted /\ op'.name = "disableFor") =>
                (~gate.inDisabledZone /\ op.name \in {"", "restore"})
          /\ (CallStarted /\ op'.name = "restore") =>
                (gate.inDisabledZone /\ op.name = "disableFor")
          /\ CallStarted => op'.name \in {"disableFor", "restore"} ]_vars

\* the second task of the chain, a restore, is in progress after the
\* disableFor before it, while a third task waits
C34_Witness ==
    /\ entry = "activate"
    /\ op.name = "restore"
    /\ op.pc = "updating"
    /\ gate.ran = 2
    /\ gate.queue # <<>>

====
